---- MODULE Spec2Model ----
(***************************************************************************)
(* Press-release ingestion pipeline (sohamsjain/sensybull-be, src/stream). *)
(*                                                                         *)
(* The specifications of this module:                                      *)
(*   SpecFeed  FeedReader.fetch_new_items on its own (rss/feed_reader.py)  *)
(*   SpecPool  the rate-limit model rotation, run by two provider threads  *)
(*             at once on the ArticleTransformer they share (the code has  *)
(*             no lock); GroqClientPool.call is the same code              *)
(*   SpecReset one thread calling GroqClientPool.call while a second      *)
(*             thread calls its reset_stats                                *)
(*   SpecStats one thread making calls and reset_stats calls of the        *)
(*             GroqClientPool, one after the other                         *)
(*   SpecSites one thread calling through both objects that hold rotation  *)
(*             state, the GroqClientPool of MaterialityFilter and the      *)
(*             ArticleTransformer                                          *)
(*   Spec      Orchestrator: registration, run(), one polling thread per   *)
(*             provider and the shared processed_urls set                  *)
(*   FairSites SpecSites with a thread that keeps running                  *)
(*   FairSpec  Spec with the fairness of the thread scheduler              *)
(*   SpecWorker one provider thread over its poll cycles, with a journal   *)
(*             of its items; the other threads only add to processed_urls  *)
(*   SpecTransform ArticleTransformer.transform on the answers the         *)
(*             completion service can give                                 *)
(*   SpecTexts the tuple ArticleTransformer.transform returns, with the    *)
(*             strings of the answer and the title of the article          *)
(*   SpecAssess MaterialityFilter.assess on the answers the completion     *)
(*             service can give                                            *)
(*   SpecTickers BaseProvider._extract_tickers on short texts              *)
(*   SpecParse parse_article of the five providers on small pages          *)
(***************************************************************************)
EXTENDS Integers, Sequences, FiniteSets, TLC

(***************************************************************************)
(* Bounds of the model.                                                    *)
(***************************************************************************)
MaxFeedLen == 2
MaxPolls == 2
NumModels == 2
MaxCalls == 2
MaxItems == 2
MaxEntries == 1
MaxMentions == 2
MaxElements == 2

(***************************************************************************)
(* Values.  The empty string stands for an absent field (entry.get(..)     *)
(* returning None or '').                                                  *)
(***************************************************************************)
Absent == ""
Ids == {"a"}
Links == {"a", "b"}
Entries == [id : Ids \cup {Absent}, link : Links \cup {Absent}]
Guids == Ids \cup Links \cup {Absent}
ProviderNames == {"P1", "P2"}

RECURSIVE SeqsUpTo(_, _)
SeqsUpTo(S, n) ==
  IF n = 0 THEN {<<>>}
  ELSE LET shorter == SeqsUpTo(S, n - 1)
       IN shorter \cup {Append(s, x) : s \in {t \in shorter : Len(t) = n - 1}, x \in S}

Feeds == SeqsUpTo(Entries, MaxFeedLen)

Range(s) == {s[i] : i \in DOMAIN s}

VARIABLES
  feed_readers,   \* Orchestrator.feed_readers: provider name -> FeedReader.seen_guids
  returned,       \* history: reader -> guid -> number of times the guid was returned
  relisted,       \* history: reader -> guids a feed listed again once they were seen
  polls           \* history: number of fetch_new_items calls made so far

feedVars == <<feed_readers, returned, relisted, polls>>

VARIABLES
  current_model_index,        \* site -> self.current_model_index
  model_failures,             \* site -> model -> self.model_failures[model]
  successful_calls_by_model,  \* site -> model -> self.successful_calls_by_model[model]
  total_api_calls,            \* site -> self.total_api_calls
  cpc,                        \* thread -> position inside call / _call_api_with_rotation
  site,                       \* thread -> the object whose rotation loop the thread runs
  models_tried,               \* thread -> local models_tried
  last_error,                 \* thread -> local last_error
  current_model,              \* thread -> local current_model
  reg,                        \* thread -> value loaded by the read half of an update
  result,                     \* thread -> outcome of the thread's latest finished call
  attempts,                   \* history: thread -> attempts of the current call, in order
  calls,                      \* history: number of calls started
  made_ok,                    \* history: site -> model -> successful attempts made
  made_failed,                \* history: site -> model -> failed attempts made
  rotations                   \* history: site -> number of _get_next_model rotations

rotationVars == <<current_model_index, model_failures, successful_calls_by_model,
                  total_api_calls>>
threadVars == <<cpc, site, models_tried, last_error, current_model, reg, result>>
poolHistVars == <<attempts, calls, made_ok, made_failed, rotations>>
poolVars == <<rotationVars, threadVars, poolHistVars>>

VARIABLES
  providers,       \* Orchestrator.providers
  FEED_MODE,       \* provider name -> FEED_MODE of the registered provider
  processed_urls,  \* Orchestrator.processed_urls
  main_pc,         \* position of main(): registering, inside run(), returned
  loop_provider,   \* thread -> the provider its _provider_loop was submitted with
  wpc,             \* thread -> position inside _provider_loop
  items,           \* thread -> items of the for loop not yet done, current one first
  article_data,    \* thread -> article_data of _process_article
  last,            \* history: thread -> what was done to the item picked last
  journal          \* history: journaled thread -> how its items ended, cycle by cycle

workerVars == <<loop_provider, wpc, items, article_data, last, journal>>
orchVars == <<providers, FEED_MODE, processed_urls, main_pc, workerVars>>

VARIABLES
  llm_output,    \* the text the completion service answered to transform's prompt
  threshold,     \* the threshold transform is called with (hundredths)
  transformed,   \* what transform returned for llm_output
  validated,     \* what _validate_category returned for the category of llm_output
  raw_output,    \* the text the completion service answered to assess's prompt
  materiality,   \* how assess ended for raw_output
  transform_args,    \* the title transform is called with, the strings written in
                     \* the answer and the exception of the LLM call, if it raised
  transform_return   \* the tuple transform returned for transform_args

answerVars == <<llm_output, threshold, transformed, validated, raw_output, materiality,
                transform_args, transform_return>>

VARIABLES
  article_text,  \* the text _extract_tickers is called with
  tickers,       \* what _extract_tickers returned for article_text
  variant,       \* the provider class whose parse_article is called
  html_content,  \* the page parse_article is called with
  feed_item,     \* the feed item parse_article is called with
  parse_result   \* how parse_article ended

parserVars == <<article_text, tickers, variant, html_content, feed_item, parse_result>>

vars == <<feedVars, poolVars, orchVars, answerVars, parserVars>>

(***************************************************************************)
(* FeedReader (src/stream/rss/feed_reader.py)                              *)
(***************************************************************************)

\* guid = entry.get('id') or entry.get('link', '')
EntryGuid(entry) == IF entry.id # Absent THEN entry.id ELSE entry.link

\* self.seen_guids.add(guid)
MarkSeen_Dropped(seen, guid) == seen
MarkSeen_Latest(seen, guid) == {guid}
MarkSeen(seen, guid) == seen \cup {guid}

\* the for loop of fetch_new_items over feed.entries
RECURSIVE FetchLoop(_, _, _)
FetchLoop(entries, seen, new_items) ==
  IF entries = <<>> THEN [items |-> new_items, seen |-> seen]
  ELSE LET entry == Head(entries)
           guid == EntryGuid(entry)
       IN IF guid \in seen
          THEN FetchLoop(Tail(entries), seen, new_items)
          ELSE FetchLoop(Tail(entries), MarkSeen(seen, guid),
                         Append(new_items, [link |-> entry.link, guid |-> guid]))

\* FeedReader.fetch_new_items, given the entries feedparser parsed
FetchNewItems(seen, entries) ==
  IF entries = <<>> THEN [items |-> <<>>, seen |-> seen]
  ELSE FetchLoop(entries, seen, <<>>)

Occurrences(s, x) == Cardinality({i \in DOMAIN s : s[i] = x})

ItemGuids(its) == [i \in DOMAIN its |-> its[i].guid]

EntryGuids(entries) == [i \in DOMAIN entries |-> EntryGuid(entries[i])]

\* one call of fetch_new_items on the reader of provider n
fetch_new_items(n) ==
  /\ n \in DOMAIN feed_readers
  /\ polls < MaxPolls
  /\ \E entries \in Feeds :
       LET r == FetchNewItems(feed_readers[n], entries)
       IN /\ feed_readers' = [feed_readers EXCEPT ![n] = r.seen]
          /\ returned' = [returned EXCEPT ![n] =
                 [g \in Guids |-> @[g] + Occurrences(ItemGuids(r.items), g)]]
          /\ relisted' = [relisted EXCEPT ![n] = @ \cup
                 {g \in Guids : Occurrences(EntryGuids(entries), g) >
                                Occurrences(ItemGuids(r.items), g)}]
  /\ polls' = polls + 1
  /\ UNCHANGED <<poolVars, orchVars, answerVars, parserVars>>

FeedInit ==
  /\ feed_readers = [n \in ProviderNames |-> {}]
  /\ returned = [n \in ProviderNames |-> [g \in Guids |-> 0]]
  /\ relisted = [n \in ProviderNames |-> {}]
  /\ polls = 0


(***************************************************************************)
(* Model rotation (src/stream/groq_client_pool.py, GroqClientPool, and its *)
(* copy inside src/stream/article_transformer.py, ArticleTransformer).     *)
(* A site is one object holding rotation state: the GroqClientPool that    *)
(* MaterialityFilter.assess calls, or the ArticleTransformer itself.       *)
(***************************************************************************)
Sites == {"pool", "transformer"}
Threads == {"T1", "T2"}

\* self.config.models: the catalog, indexed 0..len-1 by current_model_index
ModelIndexes == 0 .. NumModels - 1
config_models(i) == <<"model", i>>
ModelSet == {config_models(i) : i \in ModelIndexes}

\* GroqClientPoolConfig.enable_model_rotation / TransformerConfig.enable_model_rotation
enable_model_rotation == TRUE

None == [kind |-> "none"]
\* a local variable no value has been assigned to
Unbound == <<>>

\* texts are sequences of characters
Chr_Upper == <<"A","B","C","D","E","F","G","H","I","J","K","L","M",
               "N","O","P","Q","R","S","T","U","V","W","X","Y","Z">>
Chr_Lower == <<"a","b","c","d","e","f","g","h","i","j","k","l","m",
               "n","o","p","q","r","s","t","u","v","w","x","y","z">>

\* str.lower()
LowerChar(c) ==
  IF \E i \in DOMAIN Chr_Upper : Chr_Upper[i] = c
  THEN Chr_Lower[CHOOSE i \in DOMAIN Chr_Upper : Chr_Upper[i] = c]
  ELSE c
Lower(s) == [i \in DOMAIN s |-> LowerChar(s[i])]

\* `indicator in error_str`
Contains(s, t) ==
  \E i \in 1 .. (Len(s) - Len(t) + 1) : SubSeq(s, i, i + Len(t) - 1) = t

\* str.strip()
RECURSIVE LStrip(_)
LStrip(s) == IF s # <<>> /\ Head(s) = " " THEN LStrip(Tail(s)) ELSE s
RECURSIVE RStrip(_)
RStrip(s) == IF s # <<>> /\ s[Len(s)] = " " THEN RStrip(SubSeq(s, 1, Len(s) - 1)) ELSE s
Strip(s) == RStrip(LStrip(s))

RateLimitIndicators ==
  { <<"r","a","t","e"," ","l","i","m","i","t">>,
    <<"r","a","t","e","_","l","i","m","i","t">>,
    <<"r","a","t","e","l","i","m","i","t">>,
    <<"4","2","9">>,
    <<"t","o","o"," ","m","a","n","y"," ","r","e","q","u","e","s","t","s">>,
    <<"q","u","o","t","a"," ","e","x","c","e","e","d","e","d">> }

\* _is_rate_limit_error, on str(error)
is_rate_limit_error(msg) ==
  \E indicator \in RateLimitIndicators : Contains(Lower(msg), indicator)

\* what the completion service can answer: str(e) of the exception raised ...
ErrorMessages ==
  { <<"R","a","t","e"," ","L","i","m","i","t">>,
    <<"t","i","m","e","o","u","t">> }
\* ... or response.choices[0].message.content, written by the model that served
ContentOf(m) == <<" ", m, " ">>

\* an exception object: its text and the attempt (model) that raised it
Error(msg, m) == [kind |-> "error", msg |-> msg, model |-> m]

\* `return response.choices[0].message.content.strip(), current_model`
Returned_FirstTried(content, cm, tried) ==
  [kind |-> "return", text |-> Strip(content), model |-> tried[1].model]
Returned(content, cm, tried) ==
  [kind |-> "return", text |-> Strip(content), model |-> cm]

\* `raise` inside the except block re-raises e; after the loop
\* `raise last_error if last_error else Exception("All models unavailable")`
AllModelsUnavailable == [kind |-> "error", msg |-> <<"A","l","l">>, model |-> None]
Raised_Generic(e) == [kind |-> "raise", error |-> AllModelsUnavailable]
Raised(e) == [kind |-> "raise", error |-> IF e # None THEN e ELSE AllModelsUnavailable]

\* the condition under which the except block rotates and retries
ShouldRotate_AnyError(e, tried) ==
  enable_model_rotation /\ Cardinality(tried) < NumModels
ShouldRotate(e, tried) ==
  /\ is_rate_limit_error(e.msg)
  /\ enable_model_rotation
  /\ Cardinality(tried) < NumModels

\* _get_next_model: the value stored into self.current_model_index
NextIndex_NoWrap(i) == i + 1
NextIndex_Stuck(i) == i
NextIndex(i) == (i + 1) % NumModels

Last(s) == s[Len(s)]

\* `self.d[k] += 1` loads the dict self.d once and stores into that object: when
\* reset_stats has bound a new dict to self.d in between, the store goes to the
\* dict that was dropped
Discarded == 0 - 1
Drop(s, position) ==
  [u \in Threads |-> IF site[u] = s /\ cpc[u] = position THEN Discarded ELSE reg[u]]

\* the call returns or raises: its frame (the locals) is gone
Leave(t) ==
  /\ cpc' = [cpc EXCEPT ![t] = "idle"]
  /\ models_tried' = [models_tried EXCEPT ![t] = {}]
  /\ last_error' = [last_error EXCEPT ![t] = None]
  /\ current_model' = [current_model EXCEPT ![t] = Unbound]
  /\ reg' = [reg EXCEPT ![t] = 0]

\* entry of call() / _call_api_with_rotation(): models_tried = set(); last_error = None
\* MaterialityFilter.assess enters GroqClientPool.call, transform() enters the copy
call_start(t, s) ==
  /\ cpc[t] = "idle"
  /\ calls < MaxCalls
  /\ site' = [site EXCEPT ![t] = s]
  /\ models_tried' = [models_tried EXCEPT ![t] = {}]
  /\ last_error' = [last_error EXCEPT ![t] = None]
  /\ attempts' = [attempts EXCEPT ![t] = <<>>]
  /\ result' = [result EXCEPT ![t] = None]
  /\ calls' = calls + 1
  /\ cpc' = [cpc EXCEPT ![t] = "loop"]
  /\ UNCHANGED <<rotationVars, current_model, reg, made_ok, made_failed, rotations>>
  /\ UNCHANGED <<feedVars, orchVars, answerVars, parserVars>>

\* top of the while loop: reads self.current_model_index once
call_loop(t) ==
  /\ cpc[t] = "loop"
  /\ LET cm == config_models(current_model_index[site[t]])
     IN IF Cardinality(models_tried[t]) < NumModels /\ cm \notin models_tried[t]
        THEN /\ models_tried' = [models_tried EXCEPT ![t] = @ \cup {cm}]
             /\ current_model' = [current_model EXCEPT ![t] = cm]
             /\ cpc' = [cpc EXCEPT ![t] = "request"]
             /\ UNCHANGED <<result, last_error, reg>>
        ELSE \* loop left by its condition or by break: raise last_error
             /\ result' = [result EXCEPT ![t] = Raised(last_error[t])]
             /\ Leave(t)
  /\ UNCHANGED <<rotationVars, site, poolHistVars>>
  /\ UNCHANGED <<feedVars, orchVars, answerVars, parserVars>>

\* client.chat.completions.create answers; then the read half of
\* `self.total_api_calls += 1`
request_ok(t) ==
  /\ cpc[t] = "request"
  /\ attempts' = [attempts EXCEPT ![t] =
       Append(@, [model |-> current_model[t], outcome |-> "ok",
                  payload |-> ContentOf(current_model[t])])]
  /\ reg' = [reg EXCEPT ![t] = total_api_calls[site[t]]]
  /\ made_ok' = [made_ok EXCEPT ![site[t]][current_model[t]] = @ + 1]
  /\ cpc' = [cpc EXCEPT ![t] = "w_total"]
  /\ UNCHANGED <<rotationVars, site, models_tried, last_error, current_model, result,
                 calls, made_failed, rotations>>
  /\ UNCHANGED <<feedVars, orchVars, answerVars, parserVars>>

\* the write half of `self.total_api_calls += 1`
write_total(t) ==
  /\ cpc[t] = "w_total"
  /\ total_api_calls' = [total_api_calls EXCEPT ![site[t]] = reg[t] + 1]
  /\ cpc' = [cpc EXCEPT ![t] = "r_success"]
  /\ UNCHANGED <<current_model_index, model_failures, successful_calls_by_model,
                 site, models_tried, last_error, current_model, reg, result, poolHistVars>>
  /\ UNCHANGED <<feedVars, orchVars, answerVars, parserVars>>

\* the read half of `self.successful_calls_by_model[current_model] += 1`
read_success(t) ==
  /\ cpc[t] = "r_success"
  /\ reg' = [reg EXCEPT ![t] = successful_calls_by_model[site[t]][current_model[t]]]
  /\ cpc' = [cpc EXCEPT ![t] = "w_success"]
  /\ UNCHANGED <<rotationVars, site, models_tried, last_error, current_model, result,
                 poolHistVars>>
  /\ UNCHANGED <<feedVars, orchVars, answerVars, parserVars>>

\* its write half, then `return ..., current_model`
write_success(t) ==
  /\ cpc[t] = "w_success"
  /\ successful_calls_by_model' =
       IF reg[t] = Discarded THEN successful_calls_by_model
       ELSE [successful_calls_by_model EXCEPT ![site[t]][current_model[t]] = reg[t] + 1]
  /\ result' = [result EXCEPT ![t] =
       Returned(Last(attempts[t]).payload, current_model[t], attempts[t])]
  /\ Leave(t)
  /\ UNCHANGED <<current_model_index, model_failures, total_api_calls,
                 site, poolHistVars>>
  /\ UNCHANGED <<feedVars, orchVars, answerVars, parserVars>>

\* client.chat.completions.create raises e: last_error = e, then the read half
\* of `self.model_failures[current_model] += 1`
request_fails(t) ==
  /\ cpc[t] = "request"
  /\ \E msg \in ErrorMessages :
       LET e == Error(msg, current_model[t])
       IN /\ last_error' = [last_error EXCEPT ![t] = e]
          /\ attempts' = [attempts EXCEPT ![t] =
               Append(@, [model |-> current_model[t], outcome |-> "raised", payload |-> e])]
  /\ reg' = [reg EXCEPT ![t] = model_failures[site[t]][current_model[t]]]
  /\ made_failed' = [made_failed EXCEPT ![site[t]][current_model[t]] = @ + 1]
  /\ cpc' = [cpc EXCEPT ![t] = "w_failure"]
  /\ UNCHANGED <<rotationVars, site, models_tried, current_model, result,
                 calls, made_ok, rotations>>
  /\ UNCHANGED <<feedVars, orchVars, answerVars, parserVars>>

\* the write half of the failure counter, then the except block's decision:
\* rotate and retry, or re-raise e
write_failure(t) ==
  /\ cpc[t] = "w_failure"
  /\ model_failures' =
       IF reg[t] = Discarded THEN model_failures
       ELSE [model_failures EXCEPT ![site[t]][current_model[t]] = reg[t] + 1]
  /\ IF ShouldRotate(last_error[t], models_tried[t])
     THEN /\ cpc' = [cpc EXCEPT ![t] = "r_index"]
          /\ UNCHANGED <<result, models_tried, last_error, current_model, reg>>
     ELSE /\ result' = [result EXCEPT ![t] = Raised(last_error[t])]
          /\ Leave(t)
  /\ UNCHANGED <<current_model_index, successful_calls_by_model, total_api_calls,
                 site, poolHistVars>>
  /\ UNCHANGED <<feedVars, orchVars, answerVars, parserVars>>

\* _get_next_model: self.current_model_index is loaded, len(...) is called ...
read_index(t) ==
  /\ cpc[t] = "r_index"
  /\ reg' = [reg EXCEPT ![t] = current_model_index[site[t]]]
  /\ cpc' = [cpc EXCEPT ![t] = "w_index"]
  /\ UNCHANGED <<rotationVars, site, models_tried, last_error, current_model, result,
                 poolHistVars>>
  /\ UNCHANGED <<feedVars, orchVars, answerVars, parserVars>>

\* ... and the new index is stored; time.sleep(1); continue
write_index(t) ==
  /\ cpc[t] = "w_index"
  /\ current_model_index' = [current_model_index EXCEPT ![site[t]] = NextIndex(reg[t])]
  /\ rotations' = [rotations EXCEPT ![site[t]] = @ + 1]
  /\ cpc' = [cpc EXCEPT ![t] = "loop"]
  /\ UNCHANGED <<model_failures, successful_calls_by_model, total_api_calls,
                 site, models_tried, last_error, current_model, reg, result,
                 attempts, calls, made_ok, made_failed>>
  /\ UNCHANGED <<feedVars, orchVars, answerVars, parserVars>>

\* reset_stats: the dict `{model: 0 for model in self.config.models}` bound in
\* place of the dict `counters`
ResetCounters_Kept(counters) == counters
ResetCounters(counters) == [m \in ModelSet |-> 0]

\* reset_stats(): self.total_api_calls = 0
reset_total(t, s) ==
  /\ cpc[t] = "idle"
  /\ site' = [site EXCEPT ![t] = s]
  /\ total_api_calls' = [total_api_calls EXCEPT ![s] = 0]
  /\ cpc' = [cpc EXCEPT ![t] = "rs_success"]
  /\ UNCHANGED <<current_model_index, model_failures, successful_calls_by_model,
                 models_tried, last_error, current_model, reg, result, poolHistVars>>
  /\ UNCHANGED <<feedVars, orchVars, answerVars, parserVars>>

\* self.successful_calls_by_model = {model: 0 for model in self.config.models}
reset_success(t) ==
  /\ cpc[t] = "rs_success"
  /\ successful_calls_by_model' =
       [successful_calls_by_model EXCEPT ![site[t]] = ResetCounters(@)]
  /\ reg' = Drop(site[t], "w_success")
  /\ cpc' = [cpc EXCEPT ![t] = "rs_failures"]
  /\ UNCHANGED <<current_model_index, model_failures, total_api_calls,
                 site, models_tried, last_error, current_model, result, poolHistVars>>
  /\ UNCHANGED <<feedVars, orchVars, answerVars, parserVars>>

\* self.model_failures = {model: 0 for model in self.config.models}; return
reset_failures(t) ==
  /\ cpc[t] = "rs_failures"
  /\ model_failures' = [model_failures EXCEPT ![site[t]] = ResetCounters(@)]
  /\ reg' = Drop(site[t], "w_failure")
  /\ cpc' = [cpc EXCEPT ![t] = "idle"]
  /\ UNCHANGED <<current_model_index, successful_calls_by_model, total_api_calls,
                 site, models_tried, last_error, current_model, result, poolHistVars>>
  /\ UNCHANGED <<feedVars, orchVars, answerVars, parserVars>>

\* GroqClientPool.__init__ / ArticleTransformer.__init__, no call running
PoolInit ==
  /\ current_model_index = [s \in Sites |-> 0]
  /\ model_failures = [s \in Sites |-> [m \in ModelSet |-> 0]]
  /\ successful_calls_by_model = [s \in Sites |-> [m \in ModelSet |-> 0]]
  /\ total_api_calls = [s \in Sites |-> 0]
  /\ cpc = [t \in Threads |-> "idle"]
  /\ site = [t \in Threads |-> "transformer"]
  /\ models_tried = [t \in Threads |-> {}]
  /\ last_error = [t \in Threads |-> None]
  /\ current_model = [t \in Threads |-> Unbound]
  /\ reg = [t \in Threads |-> 0]
  /\ result = [t \in Threads |-> None]
  /\ attempts = [t \in Threads |-> <<>>]
  /\ calls = 0
  /\ made_ok = [s \in Sites |-> [m \in ModelSet |-> 0]]
  /\ made_failed = [s \in Sites |-> [m \in ModelSet |-> 0]]
  /\ rotations = [s \in Sites |-> 0]

(***************************************************************************)
(* Orchestrator (src/stream/orchestrator.py), driven as main() drives it   *)
(* (src/stream/main.py): providers are registered one after another, each  *)
(* once, then run() is called.  Threads are numbered by the position of    *)
(* their provider in the submission order of run().                        *)
(***************************************************************************)
ProviderOrder == <<"P1", "P2">>
WorkerIds == 1 .. Len(ProviderOrder)
FeedModes == {"rss", "scrape"}

NoArticle == [kind |-> "none"]
NoItem == [url |-> Absent, events |-> {}]

\* what an item's page can hold: no body text, body text without an
\* exchange-qualified ticker, body text with one
Pages == { [text |-> "", tickers |-> {}],
           [text |-> "body", tickers |-> {}],
           [text |-> "body", tickers |-> {"AAPL"}] }

\* feeds an RSS provider can serve in one poll of the orchestrator: every entry
\* carries a link
LinkedEntries == {e \in Entries : e.link # Absent}
PollFeeds == SeqsUpTo(LinkedEntries, MaxEntries)

\* get_listing_urls of the scrape-capable providers: one item per distinct link
Listings ==
  {[i \in DOMAIN s |-> [link |-> s[i], guid |-> s[i]]] :
     s \in {q \in SeqsUpTo(Links, MaxItems) : Cardinality(Range(q)) = Len(q)}}

\* provider.parse_article: None when no body text was extracted
ParseArticle(url, page) ==
  IF page.text = "" THEN NoArticle
  ELSE [kind |-> "article", url |-> url, article_text |-> page.text,
        tickers |-> page.tickers, bullets |-> <<>>, summary |-> "", topics |-> <<>>]

\* `if not article_data.get('tickers')` is false
HasTickers_Always(article) == TRUE
HasTickers(article) == article.tickers # {}

\* ArticleTransformer.transform: the LLM answer is parsed, or the exception of
\* the LLM call is caught and turned into the error tuple; it never raises
Transform(article, llm) ==
  IF llm = "answer"
  THEN [raised |-> FALSE, bullets |-> <<"point">>, summary |-> "generated",
        topic |-> "classified"]
  ELSE [raised |-> FALSE, bullets |-> <<>>, summary |-> "Error generating summary",
        topic |-> "General"]

\* (text[:500] + "...") if len(text) > 500 else text
SummaryCap == 500
RawSummary(text) ==
  IF Len(text) > SummaryCap THEN SubSeq(text, 1, SummaryCap) \o "..." ELSE text

\* step 4 of _process_article: the transformer's result, or the fallback of
\* the except branch
Transformed(article, r) ==
  IF r.raised
  THEN [article EXCEPT !.bullets = <<>>, !.summary = RawSummary(article.article_text),
                       !.topics = <<"General">>]
  ELSE [article EXCEPT !.bullets = r.bullets, !.summary = r.summary,
                       !.topics = <<r.topic>>]

\* ThreadPoolExecutor(max_workers=len(self.providers))
MaxWorkers_Single(ps) == 1
MaxWorkers(ps) == Len(ps)

\* _provider_loop: `except Exception` logs and falls through to time.sleep
AfterCycleError_Crash == "crashed"
AfterCycleError_NoSleep == "poll"
AfterCycleError == "sleep"

Provider(i) == loop_provider[i]
CurrentUrl(i) == Head(items[i]).link
Note(i, e) == [last EXCEPT ![i].events = @ \cup {e}]

\* `if url in self.processed_urls: continue`
IsProcessed_Never(url, urls) == FALSE
IsProcessed(url, urls) == url \in urls

\* `if not html: ... return False` leaves processed_urls alone
AfterFetchFailure_Marked(urls, url) == urls \cup {url}
AfterFetchFailure(urls, url) == urls

\* `if saved: self.processed_urls.add(url)`
AfterStore_Always(urls, url, saved) == urls \cup {url}
AfterStore(urls, url, saved) == IF saved THEN urls \cup {url} ELSE urls

\* the journal of a thread: how the processing of each item (by guid) ended
\* last, the guids the feed listed again in this cycle after their processing
\* had failed, per link what this cycle did with it (assess counts the
\* MaterialityFilter.assess calls: _process_article makes none), and what the
\* thread has done in this cycle since its latest page fetch
ItemKeys == Ids \cup Links
Failures == {"fetch_failed", "parse_none", "rejected"}
NoVisit ==
  [tested |-> "no", fetch |-> 0, tickers |-> FALSE, assess |-> 0, classify |-> 0,
   llm |-> "none", raised |-> FALSE, post |-> 0]
NewJournal ==
  [outcome |-> [g \in ItemKeys |-> "none"], relisted |-> {},
   cycle |-> [l \in Links |-> NoVisit], since_fetch |-> "nothing"]
StartCycle(j, listed) ==
  [j EXCEPT !.cycle = [l \in Links |-> NoVisit],
            !.relisted = {g \in listed : j.outcome[g] \in Failures},
            !.since_fetch = "nothing"]
Tested(j, url, inset) ==
  [j EXCEPT !.cycle[url].tested = IF inset THEN "skipped" ELSE "new"]
Fetched(j, url) == [j EXCEPT !.cycle[url].fetch = @ + 1, !.since_fetch = "fetched"]
Delayed(j) == [j EXCEPT !.since_fetch = "delayed"]
Concluded(j, guid, how) == [j EXCEPT !.outcome[guid] = how]
CurrentGuid(i) == Head(items[i]).guid

\* Orchestrator.register_provider, called by main() with a fresh provider
register_provider(n, mode) ==
  /\ main_pc = "register"
  /\ Len(providers) < Len(ProviderOrder)
  /\ n = ProviderOrder[Len(providers) + 1]
  /\ providers' = Append(providers, n)
  /\ FEED_MODE' = FEED_MODE @@ (n :> mode)
  /\ feed_readers' = IF mode = "rss" THEN feed_readers @@ (n :> {}) ELSE feed_readers
  /\ UNCHANGED <<returned, relisted, polls, poolVars, answerVars, parserVars, processed_urls, main_pc, workerVars>>

\* Orchestrator.run with no provider registered: logs and returns
run_empty_Blocks ==
  /\ main_pc = "register"
  /\ providers = <<>>
  /\ main_pc' = "running"
  /\ UNCHANGED <<feedVars, poolVars, answerVars, parserVars, providers, FEED_MODE, processed_urls, workerVars>>
run_empty ==
  /\ main_pc = "register"
  /\ providers = <<>>
  /\ main_pc' = "returned"
  /\ UNCHANGED <<feedVars, poolVars, answerVars, parserVars, providers, FEED_MODE, processed_urls, workerVars>>

\* Orchestrator.run: one _provider_loop submitted per provider, then it blocks
run ==
  /\ main_pc = "register"
  /\ providers # <<>>
  /\ main_pc' = "running"
  /\ LET started == SubSeq(providers, 1, MaxWorkers(providers))
     IN /\ loop_provider' = started
        /\ wpc' = [i \in DOMAIN started |-> "poll"]
        /\ items' = [i \in DOMAIN started |-> <<>>]
        /\ article_data' = [i \in DOMAIN started |-> NoArticle]
        /\ last' = [i \in DOMAIN started |-> NoItem]
  /\ UNCHANGED <<feedVars, poolVars, answerVars, parserVars, providers, FEED_MODE, processed_urls, journal>>

\* reader = self.feed_readers.get(provider.PROVIDER): the seen_guids it holds
ReaderOf_Shared(readers, name) == UNION {readers[n] : n \in DOMAIN readers}
ReaderOf(readers, name) == readers[name]

\* _poll_rss up to the for loop: reader.fetch_new_items()
poll_rss(i) ==
  /\ wpc[i] = "poll"
  /\ FEED_MODE[Provider(i)] = "rss"
  /\ IF Provider(i) \notin DOMAIN feed_readers
     THEN /\ wpc' = [wpc EXCEPT ![i] = "sleep"]
          /\ journal' = IF i \in DOMAIN journal
                         THEN [journal EXCEPT ![i] = StartCycle(@, {})] ELSE journal
          /\ UNCHANGED <<feed_readers, items>>
     ELSE \E entries \in PollFeeds :
            LET r == FetchNewItems(ReaderOf(feed_readers, Provider(i)), entries)
            IN /\ feed_readers' = [feed_readers EXCEPT ![Provider(i)] = r.seen]
               /\ items' = [items EXCEPT ![i] = r.items]
               /\ wpc' = [wpc EXCEPT ![i] = "items"]
               /\ journal' = IF i \in DOMAIN journal
                              THEN [journal EXCEPT ![i] =
                                      StartCycle(@, Range(EntryGuids(entries)))]
                              ELSE journal
  /\ last' = [last EXCEPT ![i] = NoItem]
  /\ UNCHANGED <<returned, relisted, polls, poolVars, answerVars, parserVars, providers, FEED_MODE,
                 processed_urls, main_pc, loop_provider, article_data>>

\* _poll_scrape up to the for loop: the listing page is fetched and scanned
poll_scrape(i) ==
  /\ wpc[i] = "poll"
  /\ FEED_MODE[Provider(i)] # "rss"
  /\ \/ \* http_client.get returned None
        /\ wpc' = [wpc EXCEPT ![i] = "sleep"]
        /\ journal' = IF i \in DOMAIN journal
                       THEN [journal EXCEPT ![i] = StartCycle(@, {})] ELSE journal
        /\ UNCHANGED items
     \/ \E listing \in Listings :
          /\ items' = [items EXCEPT ![i] = listing]
          /\ wpc' = [wpc EXCEPT ![i] = "items"]
          /\ journal' = IF i \in DOMAIN journal
                         THEN [journal EXCEPT ![i] =
                                 StartCycle(@, Range(ItemGuids(listing)))]
                         ELSE journal
  /\ last' = [last EXCEPT ![i] = NoItem]
  /\ UNCHANGED <<feedVars, poolVars, answerVars, parserVars, providers, FEED_MODE, processed_urls, main_pc,
                 loop_provider, article_data>>

\* an exception leaves _poll_provider (feedparser, get_listing_urls of a
\* provider without one, a parser that raises): caught by _provider_loop
cycle_raises(i) ==
  /\ wpc[i] \in {"poll", "fetch"}
  /\ wpc' = [wpc EXCEPT ![i] = AfterCycleError]
  /\ items' = [items EXCEPT ![i] = <<>>]
  /\ last' = [last EXCEPT ![i] = [url |-> Absent, events |-> {"raised"}]]
  /\ UNCHANGED <<feedVars, poolVars, answerVars, parserVars, providers, FEED_MODE, processed_urls, main_pc,
                 loop_provider, article_data, journal>>

\* head of `for item in items`: the membership test on processed_urls
next_item(i) ==
  /\ wpc[i] = "items"
  /\ IF items[i] = <<>>
     THEN /\ wpc' = [wpc EXCEPT ![i] = "sleep"]
          /\ UNCHANGED <<items, last, journal>>
     ELSE /\ journal' = IF i \in DOMAIN journal
                         THEN [journal EXCEPT ![i] =
                                 Tested(@, CurrentUrl(i), CurrentUrl(i) \in processed_urls)]
                         ELSE journal
          /\ IF IsProcessed(CurrentUrl(i), processed_urls)
             THEN /\ items' = [items EXCEPT ![i] = Tail(@)]
                  /\ UNCHANGED <<wpc, last>>
             ELSE /\ wpc' = [wpc EXCEPT ![i] = "fetch"]
                  /\ last' = [last EXCEPT ![i] = [url |-> CurrentUrl(i), events |-> {}]]
                  /\ UNCHANGED items
  /\ UNCHANGED <<feedVars, poolVars, answerVars, parserVars, providers, FEED_MODE, processed_urls, main_pc,
                 loop_provider, article_data>>

\* _process_article steps 1-3: the page fetch failed
fetch_fails(i) ==
  /\ wpc[i] = "fetch"
  /\ items' = [items EXCEPT ![i] = Tail(@)]
  /\ wpc' = [wpc EXCEPT ![i] = "items"]
  /\ last' = Note(i, "fetch")
  /\ processed_urls' = AfterFetchFailure(processed_urls, CurrentUrl(i))
  /\ journal' = IF i \in DOMAIN journal
                 THEN [journal EXCEPT ![i] =
                         Concluded(Fetched(@, CurrentUrl(i)), CurrentGuid(i), "fetch_failed")]
                 ELSE journal
  /\ UNCHANGED <<feedVars, poolVars, answerVars, parserVars, providers, FEED_MODE, main_pc,
                 loop_provider, article_data>>

\* _process_article steps 1-3: the page is fetched and parsed
fetch_parse(i) ==
  /\ wpc[i] = "fetch"
  /\ \E page \in Pages :
       LET article == ParseArticle(CurrentUrl(i), page)
           parsed == IF article = NoArticle THEN "parse_none"
                     ELSE IF article.tickers = {} THEN "no_tickers"
                     ELSE "tickers"
       IN /\ last' = [last EXCEPT ![i].events = @ \cup {"fetch", parsed}]
          /\ journal' =
               IF i \in DOMAIN journal
               THEN LET f == Fetched(journal[i], CurrentUrl(i))
                    IN [journal EXCEPT ![i] =
                          IF parsed = "parse_none" THEN Concluded(f, CurrentGuid(i), "parse_none")
                          ELSE IF parsed = "no_tickers" THEN Concluded(f, CurrentGuid(i), "dropped")
                          ELSE [f EXCEPT !.cycle[CurrentUrl(i)].tickers = TRUE]]
               ELSE journal
          /\ IF article = NoArticle
             THEN \* `if not article_data: return False`
                  /\ items' = [items EXCEPT ![i] = Tail(@)]
                  /\ wpc' = [wpc EXCEPT ![i] = "items"]
                  /\ UNCHANGED <<processed_urls, article_data>>
             ELSE IF ~HasTickers(article)
             THEN \* processed_urls.add(url); return False
                  /\ processed_urls' = processed_urls \cup {CurrentUrl(i)}
                  /\ items' = [items EXCEPT ![i] = Tail(@)]
                  /\ wpc' = [wpc EXCEPT ![i] = "items"]
                  /\ UNCHANGED article_data
             ELSE /\ article_data' = [article_data EXCEPT ![i] = article]
                  /\ wpc' = [wpc EXCEPT ![i] = "transform"]
                  /\ UNCHANGED <<processed_urls, items>>
  /\ UNCHANGED <<feedVars, poolVars, answerVars, parserVars, providers, FEED_MODE, main_pc, loop_provider>>

\* _process_article step 4: self.transformer.transform(...)
transform_article(i) ==
  /\ wpc[i] = "transform"
  /\ \E llm \in {"answer", "raise"} :
       LET r == Transform(article_data[i], llm)
       IN /\ article_data' = [article_data EXCEPT ![i] = Transformed(@, r)]
          /\ journal' =
               IF i \in DOMAIN journal
               THEN [journal EXCEPT ![i].cycle[CurrentUrl(i)] =
                       [@ EXCEPT !.classify = @ + 1,
                                 !.llm = IF llm = "raise" THEN "failed" ELSE "answered",
                                 !.raised = r.raised]]
               ELSE journal
  /\ last' = Note(i, "transform")
  /\ wpc' = [wpc EXCEPT ![i] = "store"]
  /\ UNCHANGED <<feedVars, poolVars, answerVars, parserVars, providers, FEED_MODE, processed_urls, main_pc,
                 loop_provider, items>>

\* _process_article step 5: self.storage.save_article(article_data)
store_article(i) ==
  /\ wpc[i] = "store"
  /\ \E saved \in BOOLEAN :
       /\ processed_urls' = AfterStore(processed_urls, CurrentUrl(i), saved)
       /\ journal' =
            IF i \in DOMAIN journal
            THEN [journal EXCEPT ![i] =
                    Concluded([@ EXCEPT !.cycle[CurrentUrl(i)].post = @ + 1],
                              CurrentGuid(i), IF saved THEN "saved" ELSE "rejected")]
            ELSE journal
       /\ last' = [last EXCEPT ![i].events =
                     @ \cup {"post"} \cup (IF saved THEN {"saved"} ELSE {})]
  /\ wpc' = [wpc EXCEPT ![i] = "delay"]
  /\ UNCHANGED <<feedVars, poolVars, answerVars, parserVars, providers, FEED_MODE, main_pc, loop_provider,
                 items, article_data>>

\* time.sleep(ARTICLE_PROCESSING_DELAY); return saved
item_delay(i) ==
  /\ wpc[i] = "delay"
  /\ items' = [items EXCEPT ![i] = Tail(@)]
  /\ article_data' = [article_data EXCEPT ![i] = NoArticle]
  /\ wpc' = [wpc EXCEPT ![i] = "items"]
  /\ journal' = IF i \in DOMAIN journal THEN [journal EXCEPT ![i] = Delayed(@)] ELSE journal
  /\ UNCHANGED <<feedVars, poolVars, answerVars, parserVars, providers, FEED_MODE, processed_urls, main_pc,
                 loop_provider, last>>

\* time.sleep(provider.POLL_INTERVAL), then the next turn of `while True`
poll_interval(i) ==
  /\ wpc[i] = "sleep"
  /\ wpc' = [wpc EXCEPT ![i] = "poll"]
  /\ UNCHANGED <<feedVars, poolVars, answerVars, parserVars, providers, FEED_MODE, processed_urls, main_pc,
                 loop_provider, items, article_data, last, journal>>

\* the other provider threads as one thread sees them: all they do to the
\* state it shares with them is processed_urls.add(url)
other_worker_adds(url) ==
  /\ main_pc = "running"
  /\ url \notin processed_urls
  /\ processed_urls' = processed_urls \cup {url}
  /\ UNCHANGED <<feedVars, poolVars, answerVars, parserVars, providers, FEED_MODE, main_pc, workerVars>>

\* Orchestrator.__init__
OrchInit ==
  /\ providers = <<>>
  /\ FEED_MODE = <<>>
  /\ processed_urls = {}
  /\ main_pc = "register"
  /\ loop_provider = <<>>
  /\ wpc = <<>>
  /\ items = <<>>
  /\ article_data = <<>>
  /\ last = <<>>
  /\ journal = <<>>

WorkerNext(i) ==
  /\ i \in DOMAIN wpc
  /\ \/ poll_rss(i)
     \/ poll_scrape(i)
     \/ cycle_raises(i)
     \/ next_item(i)
     \/ fetch_fails(i)
     \/ fetch_parse(i)
     \/ transform_article(i)
     \/ store_article(i)
     \/ item_delay(i)
     \/ poll_interval(i)

(***************************************************************************)
(* Parsing of the answers of the completion service:                       *)
(* ArticleTransformer._parse_response / _validate_category / transform     *)
(* (src/stream/article_transformer.py) and MaterialityFilter.assess /      *)
(* _parse_response (src/stream/materiality_filter.py).                     *)
(* An answer is described by what the parsers look at: whether it is       *)
(* wrapped in a ```json fence, whether the model put commentary around the *)
(* JSON, what the JSON text is (a complete object, a JSON value that is    *)
(* not an object, an object that does not parse), and the fields written   *)
(* in it.  Numbers are in hundredths.                                      *)
(***************************************************************************)
Payloads == {"object", "array", "broken"}

General == <<"G","e","n","e","r","a","l">>
\* self.categories
categories ==
  << <<"M","&","A">>,
     <<"S","p","i","n"," ","o","f","f","s">>,
     <<"B","u","y","b","a","c","k","s">>,
     <<"G","u","i","d","a","n","c","e">>,
     <<"L","e","a","d","e","r","s","h","i","p">>,
     <<"A","p","p","r","o","v","a","l","s">>,
     <<"A","c","t","i","v","i","s","m">>,
     General >>

\* the topic names the store is seeded with (src/migrate_materiality.py)
new_topics ==
  << <<"M","&","A">>,
     <<"S","p","i","n","-","o","f","f","s">>,
     <<"B","u","y","b","a","c","k","s">>,
     <<"G","u","i","d","a","n","c","e">>,
     <<"L","e","a","d","e","r","s","h","i","p">>,
     <<"A","p","p","r","o","v","a","l","s">>,
     <<"A","c","t","i","v","i","s","m">>,
     <<"E","a","r","n","i","n","g","s">>,
     <<"O","f","f","e","r","i","n","g","s">>,
     <<"P","a","r","t","n","e","r","s","h","i","p","s">>,
     <<"L","i","t","i","g","a","t","i","o","n">>,
     <<"R","e","s","t","r","u","c","t","u","r","i","n","g">>,
     <<"C","o","n","t","r","a","c","t","s">>,
     <<"C","l","i","n","i","c","a","l"," ","T","r","i","a","l","s">>,
     General >>

NoField == <<>>
\* category labels a model can write
RawCategories ==
  { <<"M","&","A">>, <<"m","&","a">>, <<"S","p","i","n"," ","o","f","f","s">>, <<"S","P","I","N"," ","O","F","F","S">>,
    <<"s","p","i","n"," ","o","f","f","s">>, <<"C","r","y","p","t","o">>, <<"E","a","r","n","i","n","g","s">>, General }

Num(v) == [kind |-> "num", val |-> v]
Missing == [kind |-> "missing", val |-> 0]
Null == [kind |-> "null", val |-> 0]
Text == [kind |-> "text", val |-> 0]
NaN == [kind |-> "nan", val |-> 0]

Thresholds == {30, 60}
Confidences == {Missing, Null, Text, Num(20), Num(50), Num(90)}
Scores == {Missing, Null, Text, NaN, Num(0 - 20), Num(0), Num(39), Num(40), Num(59),
           Num(60), Num(100), Num(150)}

LlmOutputs ==
  [fenced : BOOLEAN, commentary : BOOLEAN, payload : Payloads, title : BOOLEAN,
   summary : BOOLEAN, category : RawCategories \cup {NoField}, confidence : Confidences]
RawOutputs ==
  [fenced : BOOLEAN, commentary : BOOLEAN, payload : Payloads, reason : BOOLEAN,
   score : Scores]

\* re.sub(r'```json\s*|\s*```', '', output)
Unfence(output) == [output EXCEPT !.fenced = FALSE]

\* cleaned[json_start:json_end + 1] when the text has a brace span
BraceSpan(output) ==
  IF output.payload \in {"object", "broken"} THEN [output EXCEPT !.commentary = FALSE]
  ELSE output

\* json.loads(cleaned): a dict, another JSON value, or JSONDecodeError
Loads(cleaned) ==
  IF cleaned.fenced \/ cleaned.commentary \/ cleaned.payload = "broken" THEN "JSONDecodeError"
  ELSE IF cleaned.payload = "object" THEN "dict"
  ELSE "list"

\* float(parsed.get(key, 0.5))
Float(field) ==
  IF field.kind = "missing" THEN [raised |-> "", value |-> Num(50)]
  ELSE IF field.kind = "null" THEN [raised |-> "TypeError", value |-> NaN]
  ELSE IF field.kind = "text" THEN [raised |-> "ValueError", value |-> NaN]
  ELSE [raised |-> "", value |-> field]

\* comparisons of floats: every comparison with nan is False
Less(x, y) == x.kind = "num" /\ y.kind = "num" /\ x.val < y.val
AtLeast(x, y) == x.kind = "num" /\ y.kind = "num" /\ x.val >= y.val

\* ArticleTransformer._validate_category
ValidateCategory(category) ==
  IF \E k \in DOMAIN categories : categories[k] = category THEN category
  ELSE IF \E k \in DOMAIN categories : Lower(categories[k]) = Lower(category)
  THEN categories[CHOOSE k \in DOMAIN categories :
                    /\ Lower(categories[k]) = Lower(category)
                    /\ \A h \in 1 .. k - 1 : Lower(categories[h]) # Lower(category)]
  ELSE General

\* the regex fallback of ArticleTransformer._parse_response
RegexExtract_TitleOnly(output) ==
  IF output.payload # "array" /\ output.title
  THEN [raised |-> "", path |-> "regex", category |-> ValidateCategory(output.category)]
  ELSE [raised |-> "", path |-> "default", category |-> General]
RegexExtract(output) ==
  IF output.payload # "array" /\ output.title /\ output.summary
     /\ output.category # NoField
  THEN [raised |-> "", path |-> "regex", category |-> ValidateCategory(output.category)]
  ELSE [raised |-> "", path |-> "default", category |-> General]

\* ArticleTransformer._parse_response
ParseResponse(output, thr) ==
  LET cleaned == Unfence(output)
      parsed == Loads(cleaned)
  IN IF parsed = "JSONDecodeError" THEN RegexExtract(output)
     ELSE IF parsed # "dict"
     THEN [raised |-> "AttributeError", path |-> "json", category |-> General]
     ELSE LET category == ValidateCategory(IF cleaned.category = NoField THEN General
                                           ELSE cleaned.category)
              confidence == Float(cleaned.confidence)
          IN IF confidence.raised # ""
             THEN [raised |-> confidence.raised, path |-> "json", category |-> General]
             ELSE [raised |-> "", path |-> "json",
                   category |-> IF Less(confidence.value, Num(thr)) /\ category # General
                                THEN General ELSE category]

\* ArticleTransformer.transform once the completion service has answered
TransformAnswer(output, thr) ==
  LET r == ParseResponse(output, thr)
  IN IF r.raised # ""
     THEN [path |-> "except", category |-> General]
     ELSE [path |-> r.path, category |-> r.category]

\* MaterialityConfig
material_threshold == 60
borderline_threshold == 40

\* max(0.0, min(1.0, score))
PyMin(a, b) == IF Less(b, a) THEN b ELSE a
PyMax(a, b) == IF Less(a, b) THEN b ELSE a
Clamp_Unclamped(score) == score
Clamp(score) == PyMax(Num(0), PyMin(Num(100), score))

\* `except (json.JSONDecodeError, ValueError, KeyError)`
Caught == {"JSONDecodeError", "ValueError", "KeyError"}
FailOpen ==
  [kind |-> "result", is_material |-> TRUE, score |-> Num(50), is_borderline |-> FALSE,
   reason |-> "Parse failure - defaulting to material"]

MaterialityResult(score, reason) ==
  LET is_material == AtLeast(score, Num(material_threshold))
  IN [kind |-> "result", is_material |-> is_material, score |-> score,
      is_borderline |-> ~is_material /\ AtLeast(score, Num(borderline_threshold)),
      reason |-> reason]

Handled(exception) ==
  IF exception \in Caught THEN FailOpen ELSE [kind |-> "raise", error |-> exception]

\* MaterialityFilter._parse_response
ParseMateriality(output) ==
  LET cleaned == BraceSpan(Unfence(output))
      parsed == Loads(cleaned)
  IN IF parsed = "JSONDecodeError" THEN Handled("JSONDecodeError")
     ELSE IF parsed # "dict" THEN Handled("AttributeError")
     ELSE LET score == Float(cleaned.score)
          IN IF score.raised # "" THEN Handled(score.raised)
             ELSE MaterialityResult(Clamp(score.value),
                                    IF cleaned.reason THEN "stated"
                                    ELSE "No reason provided")

NotYet == [kind |-> "none"]

\* transform(title, article_text, threshold), from the answer on
transform ==
  /\ transformed = NotYet
  /\ llm_output # NotYet
  /\ transformed' = [kind |-> "return"] @@ TransformAnswer(llm_output, threshold)
  /\ UNCHANGED <<feedVars, poolVars, orchVars, parserVars, llm_output, threshold, validated,
                 raw_output, materiality, transform_args, transform_return>>

\* _validate_category(category) on the category written in the answer
validate_category ==
  /\ validated = NotYet
  /\ llm_output # NotYet
  /\ llm_output.category # NoField
  /\ validated' = [kind |-> "return", category |-> ValidateCategory(llm_output.category)]
  /\ UNCHANGED <<feedVars, poolVars, orchVars, parserVars, llm_output, threshold, transformed,
                 raw_output, materiality, transform_args, transform_return>>

\* assess(title, article_text), from the answer on
assess ==
  /\ materiality = NotYet
  /\ raw_output # NotYet
  /\ materiality' = ParseMateriality(raw_output)
  /\ UNCHANGED <<feedVars, poolVars, orchVars, parserVars, llm_output, threshold, transformed,
                 validated, raw_output, transform_args, transform_return>>

(***************************************************************************)
(* The tuple transform returns (src/stream/article_transformer.py).  A     *)
(* string is described by where it comes from, its length and the number   *)
(* of its characters that whitespace normalisation removes; bullets are    *)
(* lists of short strings, kept character by character because the regex   *)
(* fallback splits the text of the array.                                  *)
(***************************************************************************)
String(of, len) == [of |-> of, len |-> len, extra |-> 0]

\* s[:n]
Truncate_Whole(s, n) == s
Truncate(s, n) == IF s.len > n THEN [s EXCEPT !.len = n] ELSE s

\* TransformerConfig.max_text_length
max_text_length == 2000
\* the slices [:100] and [:1000] of _parse_response
TitleLimit == 100
SummaryLimit == 1000

\* _preprocess_text: ' '.join(text.split()), then text[:max_text_length]
PreprocessText(s) ==
  Truncate([s EXCEPT !.len = @ - s.extra, !.extra = 0], max_text_length)

\* titles of feed items
Titles == [of : {"title"}, len : {60, 150, 2500}, extra : {0, 3}]

\* bullets as the answer writes them: no array or an empty one, two plain
\* strings, strings with a comma inside
BulletLists ==
  { <<>>,
    << <<"u","p">>, <<"n","e","w">> >>,
    << <<"u","p",","," ","n","e","w">>, <<"o","k">> >> }

\* the strings of an answer; which of them the answer holds is told by the
\* title, summary fields of llm_output
AnswerTexts ==
  [title : {String("response.title", 40), String("response.title", 150)},
   summary : {String("response.summary", 300), String("response.summary", 1500)},
   bullets : BulletLists \cup {NoField}]

\* str(e) of the exception _call_api raised, if it raised
NoError == String("", 0)
ApiErrors == {NoError, String("str(e)", 40), String("str(e)", 1200)}

\* str(e) of the exceptions _parse_response lets through
ExceptionText(exception) == String(exception, 50)

\* re.search(r'"bullets"\s*:\s*\[([^\]]+)\]', output).group(1): the text between
\* the brackets as json writes the list
RECURSIVE ArrayText(_)
ArrayText(bullets) ==
  IF bullets = <<>> THEN <<>>
  ELSE <<"\"">> \o Head(bullets) \o <<"\"">> \o
       (IF Len(bullets) > 1 THEN <<",", " ">> \o ArrayText(Tail(bullets)) ELSE <<>>)

\* str.split(',')
RECURSIVE Split(_, _)
Split(s, piece) ==
  IF s = <<>> THEN <<piece>>
  ELSE IF Head(s) = "," THEN <<piece>> \o Split(Tail(s), <<>>)
  ELSE Split(Tail(s), Append(piece, Head(s)))

\* b.strip(' "')
RECURSIVE StripChars(_)
StripChars(s) ==
  IF s # <<>> /\ Head(s) \in {" ", "\""} THEN StripChars(Tail(s))
  ELSE IF s # <<>> /\ s[Len(s)] \in {" ", "\""} THEN StripChars(SubSeq(s, 1, Len(s) - 1))
  ELSE s

\* bullets of the regex fallback: [b.strip(' "') for b in bullets_str.split(',')]
RegexBullets_AsWritten(bullets) == bullets
RegexBullets(bullets) ==
  IF bullets = NoField \/ bullets = <<>> THEN <<>>
  ELSE LET pieces == Split(ArrayText(bullets), <<>>)
       IN [k \in DOMAIN pieces |-> StripChars(pieces[k])]

NoSummaryAvailable == String("No summary available", 20)
UnableToGenerate == String("Unable to generate summary", 26)
\* f"Error generating summary: {str(e)}"
ErrorSummary(msg) == String("Error generating summary: " \o msg.of, 26 + msg.len)

\* the return of transform's except block
ErrorTuple(title, msg) ==
  [path |-> "except", title |-> title, bullets |-> <<>>, summary |-> ErrorSummary(msg),
   category |-> General]

\* the return of _parse_response when every strategy failed
DefaultTitle(title) == PreprocessText(title)

\* transform(title, article_text, threshold): the tuple it returns
TransformReturn(title, output, texts, error, thr) ==
  IF error # NoError THEN ErrorTuple(title, error)
  ELSE LET r == ParseResponse(output, thr)
       IN IF r.raised # "" THEN ErrorTuple(title, ExceptionText(r.raised))
          ELSE IF r.path = "json"
          THEN [path |-> "json",
                title |-> Truncate(IF output.title THEN texts.title
                                   ELSE PreprocessText(title), TitleLimit),
                bullets |-> IF texts.bullets = NoField THEN <<>> ELSE texts.bullets,
                summary |-> Truncate(IF output.summary THEN texts.summary
                                     ELSE NoSummaryAvailable, SummaryLimit),
                category |-> r.category]
          ELSE IF r.path = "regex"
          THEN [path |-> "regex",
                title |-> Truncate(texts.title, TitleLimit),
                bullets |-> RegexBullets(texts.bullets),
                summary |-> Truncate(texts.summary, SummaryLimit),
                category |-> r.category]
          ELSE [path |-> "default", title |-> DefaultTitle(title), bullets |-> <<>>,
                summary |-> UnableToGenerate, category |-> General]

\* transform(title, article_text, threshold) as its caller sees it
transform_returns ==
  /\ transform_return = NotYet
  /\ transform_args # NotYet
  /\ transform_return' =
       [kind |-> "return"] @@
       TransformReturn(transform_args.title, llm_output, transform_args.texts,
                       transform_args.error, threshold)
  /\ UNCHANGED <<feedVars, poolVars, orchVars, parserVars, llm_output, threshold, transformed,
                 validated, raw_output, materiality, transform_args>>

\* no answer under examination
AnswerInit ==
  /\ llm_output = NotYet
  /\ threshold = 0
  /\ transformed = NotYet
  /\ validated = NotYet
  /\ raw_output = NotYet
  /\ materiality = NotYet
  /\ transform_args = NotYet
  /\ transform_return = NotYet

(***************************************************************************)
(* Provider parsers (src/stream/providers).  BaseProvider._extract_tickers *)
(* works on the characters of the article text.                            *)
(***************************************************************************)
IsUpper(c) == \E i \in DOMAIN Chr_Upper : Chr_Upper[i] = c
\* \s
IsSpace(c) == c \in {" ", "\n", "\t"}

\* the alternation (NYSE|NASDAQ) of the pattern, in its order
Exchanges == << <<"N","Y","S","E">>, <<"N","A","S","D","A","Q">> >>

\* pieces an article text is made of: exchange-qualified mentions, mentions
\* of another exchange, malformed ones, a mention cut in two, plain words
Fragments ==
  { <<"(","N","Y","S","E",":","A","A","P","L",")">>,
    <<"(","N","A","S","D","A","Q",":"," ","A","A","P","L",")">>,
    <<"(","N","A","S","D","A","Q",":","\n"," ","T","S","L","A",")">>,
    <<"(","N","Y","S","E",":","F",")">>,
    <<"(","L","S","E",":","V","O","D",")">>,
    <<"(","N","Y","S","E",":","a","a","p","l",")">>,
    <<"(","N","Y","S","E",":","G","O","O","G","L","E",")">>,
    <<"N","Y","S","E",":","T","S","L","A">>,
    <<"(","N","Y","S","E",":">>,
    <<"T","S","L","A",")">>,
    <<" ","a","n","d"," ">> }

RECURSIVE Concat(_)
Concat(parts) == IF parts = <<>> THEN <<>> ELSE Head(parts) \o Concat(Tail(parts))

Texts == {Concat(parts) : parts \in SeqsUpTo(Fragments, MaxMentions)}

StartsWith(s, i, t) == i + Len(t) - 1 <= Len(s) /\ SubSeq(s, i, i + Len(t) - 1) = t

\* \s* : the position after the white space that starts at i
RECURSIVE SkipSpaces(_, _)
SkipSpaces(s, i) == IF i <= Len(s) /\ IsSpace(s[i]) THEN SkipSpaces(s, i + 1) ELSE i

\* [A-Z]{1,5}\) at i: the lengths k for which k capitals are followed by ')'
SymbolLengths(s, i) ==
  {k \in 1 .. 5 : /\ i + k <= Len(s)
                  /\ \A h \in 0 .. k - 1 : IsUpper(s[i + h])
                  /\ s[i + k] = ")"}

NoMatch == [found |-> FALSE, exchange |-> <<>>, symbol |-> <<>>, end |-> 0]

\* a match of \((NYSE|NASDAQ):\s*([A-Z]{1,5})\) that starts at position i
MatchAt(s, i) ==
  IF ~(i <= Len(s) /\ s[i] = "(") THEN NoMatch
  ELSE LET alts == {a \in DOMAIN Exchanges : StartsWith(s, i + 1, Exchanges[a] \o <<":">>)}
       IN IF alts = {} THEN NoMatch
          ELSE LET a == CHOOSE x \in alts : \A y \in alts : x <= y
                   j == SkipSpaces(s, i + 2 + Len(Exchanges[a]))
                   ks == SymbolLengths(s, j)
               IN IF ks = {} THEN NoMatch
                  ELSE LET k == CHOOSE x \in ks : \A y \in ks : x >= y
                       IN [found |-> TRUE, exchange |-> Exchanges[a],
                           symbol |-> SubSeq(s, j, j + k - 1), end |-> j + k]

\* re.findall: the matches from left to right, none overlapping another
RECURSIVE FindAll(_, _, _)
FindAll(s, i, matches) ==
  IF i > Len(s) THEN matches
  ELSE LET m == MatchAt(s, i)
       IN IF m.found
          THEN FindAll(s, m.end + 1, Append(matches, [exchange |-> m.exchange,
                                                       symbol |-> m.symbol]))
          ELSE FindAll(s, i + 1, matches)

\* the orders in which list(a_set) can enumerate the set
Orders(S) == {q \in SeqsUpTo(S, Cardinality(S)) : Len(q) = Cardinality(S) /\ Range(q) = S}

\* list({symbol for _exchange, symbol in matches})
SymbolList_Comprehended(matches) == {[i \in DOMAIN matches |-> matches[i].symbol]}
SymbolList(matches) == Orders({matches[i].symbol : i \in DOMAIN matches})

\* BaseProvider._extract_tickers(text)
extract_tickers ==
  /\ tickers = NotYet
  /\ \E symbols \in SymbolList(FindAll(article_text, 1, <<>>)) :
       tickers' = [kind |-> "return", symbols |-> symbols]
  /\ UNCHANGED <<feedVars, poolVars, orchVars, answerVars, article_text, variant,
                 html_content, feed_item, parse_result>>

(***************************************************************************)
(* parse_article of the five provider classes.  A page is empty (None or   *)
(* '') or a document, described by its elements in document order: what    *)
(* soup.find can locate them by and the text get_text extracts from them.  *)
(***************************************************************************)
Variants == {"PRNewswireProvider", "GlobeNewswireProvider", "NewsfileProvider",
             "BusinessWireProvider", "AccessNewswireProvider"}

\* the soup.find calls of _extract_article_text, in the order they are tried
Locators(v) ==
  CASE v = "PRNewswireProvider" ->
         <<"section.release-body", "div.release-body", "article">>
    [] v = "GlobeNewswireProvider" ->
         <<"div.main-body-container", "div.notified-body", "div.article-body", "article">>
    [] v = "NewsfileProvider" ->
         <<"div.article-content", "div#release-body", "div.news-content", "article">>
    [] v = "BusinessWireProvider" ->
         <<"div.bw-release-story", "div.bwNewRelease", "div[role=article]", "article">>
    [] v = "AccessNewswireProvider" ->
         <<"div.release-body", "div#annotate-release", "div.article-content", "article">>

ElementKinds ==
  UNION {Range(Locators(v)) : v \in Variants} \cup {"div.content", "p"}
\* an element holds text, or nothing but script, style and white space
Elements == [locator : ElementKinds, text : {"", "body"}]
HtmlContents ==
  {[empty |-> TRUE, elements |-> <<>>]}
  \cup {[empty |-> FALSE, elements |-> es] : es \in SeqsUpTo(Elements, MaxElements)}

\* feed items as FeedReader and get_listing_urls make them, and a caller's
\* value that is no dict
FeedItems == {"titled", "untitled", "not_a_dict"}

NoElement == [locator |-> "", text |-> ""]

\* soup.find(...): the first element in document order the locator matches
Find(elements, locator) ==
  IF \E k \in DOMAIN elements : elements[k].locator = locator
  THEN elements[CHOOSE k \in DOMAIN elements :
                  /\ elements[k].locator = locator
                  /\ \A h \in 1 .. k - 1 : elements[h].locator # locator]
  ELSE NoElement

\* the chain of `if not body: body = soup.find(...)`
RECURSIVE FirstFound(_, _)
FirstFound(elements, locators) ==
  IF locators = <<>> THEN NoElement
  ELSE LET body == Find(elements, Head(locators))
       IN IF body # NoElement THEN body ELSE FirstFound(elements, Tail(locators))

\* _extract_article_text: body.get_text(separator='\n', strip=True), or ''
ExtractArticleText_AnyElement(v, elements) ==
  LET body == FirstFound(elements, Locators(v))
  IN IF body # NoElement THEN body.text
     ELSE IF elements # <<>> THEN elements[1].text ELSE ""
ExtractArticleText(v, elements) ==
  LET body == FirstFound(elements, Locators(v))
  IN IF body # NoElement THEN body.text ELSE ""

\* _build_article_dict: feed_item.get('title', '') and feed_item.get('published')
BuildArticleDict(item, text) ==
  IF item = "not_a_dict" THEN [kind |-> "raise", error |-> "AttributeError"]
  ELSE [kind |-> "article", title |-> IF item = "titled" THEN "title" ELSE "",
        article_text |-> text]

\* `return None`
ReturnsNone == [kind |-> "None"]

\* parse_article(url, html_content, feed_item); `except Exception` returns None
ParseArticleOf(v, html, item) ==
  IF html.empty THEN ReturnsNone
  ELSE LET text == ExtractArticleText(v, html.elements)
       IN IF text = "" THEN ReturnsNone
          ELSE LET built == BuildArticleDict(item, text)
               IN IF built.kind = "raise" THEN ReturnsNone ELSE built

parse_article ==
  /\ parse_result = NotYet
  /\ parse_result' = ParseArticleOf(variant, html_content, feed_item)
  /\ UNCHANGED <<feedVars, poolVars, orchVars, answerVars, article_text, tickers, variant,
                 html_content, feed_item>>

\* nothing under examination
ParserInit ==
  /\ article_text = <<>>
  /\ tickers = NotYet
  /\ variant = ""
  /\ html_content = <<>>
  /\ feed_item = NotYet
  /\ parse_result = NotYet

(***************************************************************************)
(* Specifications                                                          *)
(***************************************************************************)
\* FeedReader objects as register_provider constructs them, one per name
Init == FeedInit /\ PoolInit /\ OrchInit /\ AnswerInit /\ ParserInit

NextFeed == \E n \in ProviderNames : fetch_new_items(n)

SpecFeed == Init /\ [][NextFeed]_vars

\* the provider threads inside transform() of the one ArticleTransformer
NextPool ==
  \E t \in Threads :
    \/ call_start(t, "transformer")
    \/ call_loop(t)
    \/ request_ok(t)
    \/ write_total(t)
    \/ read_success(t)
    \/ write_success(t)
    \/ request_fails(t)
    \/ write_failure(t)
    \/ read_index(t)
    \/ write_index(t)

SpecPool == Init /\ [][NextPool]_vars


\* one thread: MaterialityFilter.assess calls the GroqClientPool it was given,
\* ArticleTransformer.transform calls its own rotation loop
NextSites ==
  \/ call_start("T1", "pool")
  \/ call_start("T1", "transformer")
  \/ call_loop("T1")
  \/ request_ok("T1")
  \/ write_total("T1")
  \/ read_success("T1")
  \/ write_success("T1")
  \/ request_fails("T1")
  \/ write_failure("T1")
  \/ read_index("T1")
  \/ write_index("T1")

SpecSites == Init /\ [][NextSites]_vars

\* one thread makes calls of the GroqClientPool while a second thread calls
\* its reset_stats()
NextReset ==
  \/ call_start("T1", "pool")
  \/ call_loop("T1")
  \/ request_ok("T1")
  \/ write_total("T1")
  \/ read_success("T1")
  \/ write_success("T1")
  \/ request_fails("T1")
  \/ write_failure("T1")
  \/ read_index("T1")
  \/ write_index("T1")
  \/ reset_total("T2", "pool")
  \/ reset_success("T2")
  \/ reset_failures("T2")

SpecReset == Init /\ [][NextReset]_vars

\* one thread makes calls of the GroqClientPool and calls its reset_stats(),
\* one operation after the other
NextStats ==
  \/ call_start("T1", "pool")
  \/ call_loop("T1")
  \/ request_ok("T1")
  \/ write_total("T1")
  \/ read_success("T1")
  \/ write_success("T1")
  \/ request_fails("T1")
  \/ write_failure("T1")
  \/ read_index("T1")
  \/ write_index("T1")
  \/ reset_total("T1", "pool")
  \/ reset_success("T1")
  \/ reset_failures("T1")

SpecStats == Init /\ [][NextStats]_vars

\* the completion service answers every request and the thread keeps running
FairSites == SpecSites /\ WF_vars(NextSites)

\* the pipeline as main() starts it: no provider, no reader yet
InitMain ==
  /\ feed_readers = <<>>
  /\ returned = [n \in ProviderNames |-> [g \in Guids |-> 0]]
  /\ relisted = [n \in ProviderNames |-> {}]
  /\ polls = 0
  /\ PoolInit
  /\ OrchInit
  /\ AnswerInit
  /\ ParserInit

Next ==
  \/ \E n \in ProviderNames, mode \in FeedModes : register_provider(n, mode)
  \/ run_empty
  \/ run
  \/ \E i \in WorkerIds : WorkerNext(i)

Spec == InitMain /\ [][Next]_vars

\* every started thread keeps being scheduled and its blocking calls end
FairSpec == Spec /\ \A i \in WorkerIds : WF_vars(WorkerNext(i))

\* one provider thread followed over its poll cycles, with a journal of what
\* became of its items: run() has just submitted the loop of the one provider
\* registered, in either feed mode
InitWorker ==
  /\ \E mode \in FeedModes :
       /\ FEED_MODE = ("P1" :> mode)
       /\ feed_readers = IF mode = "rss" THEN ("P1" :> {}) ELSE <<>>
  /\ returned = [n \in ProviderNames |-> [g \in Guids |-> 0]]
  /\ relisted = [n \in ProviderNames |-> {}]
  /\ polls = 0
  /\ PoolInit
  /\ providers = <<"P1">>
  /\ processed_urls = {}
  /\ main_pc = "running"
  /\ loop_provider = <<"P1">>
  /\ wpc = <<"poll">>
  /\ items = << <<>> >>
  /\ article_data = <<NoArticle>>
  /\ last = <<NoItem>>
  /\ journal = <<NewJournal>>
  /\ AnswerInit
  /\ ParserInit

NextWorker ==
  \/ WorkerNext(1)
  \/ \E url \in Links : other_worker_adds(url)

SpecWorker == InitWorker /\ [][NextWorker]_vars

\* transform on every answer of LlmOutputs and every threshold of Thresholds
InitTransform ==
  /\ FeedInit
  /\ PoolInit
  /\ OrchInit
  /\ llm_output \in LlmOutputs
  /\ threshold \in Thresholds
  /\ transformed = NotYet
  /\ validated = NotYet
  /\ raw_output = NotYet
  /\ materiality = NotYet
  /\ transform_args = NotYet
  /\ transform_return = NotYet
  /\ ParserInit

NextTransform ==
  \/ transform
  \/ validate_category

SpecTransform == InitTransform /\ [][NextTransform]_vars

\* transform as its caller sees it, on titles, answers and failures of the
\* LLM call; the answers are those of LlmOutputs with one label of each kind
TextOutputs ==
  {o \in LlmOutputs :
     /\ o.category \in {<<"M","&","A">>, <<"C","r","y","p","t","o">>, NoField}
     /\ o.confidence \in {Missing, Text, Num(20), Num(90)}}

InitTexts ==
  /\ FeedInit
  /\ PoolInit
  /\ OrchInit
  /\ llm_output \in TextOutputs
  /\ threshold = 30
  /\ transformed = NotYet
  /\ validated = NotYet
  /\ raw_output = NotYet
  /\ materiality = NotYet
  /\ transform_args \in [title : Titles, texts : AnswerTexts, error : ApiErrors]
  /\ transform_return = NotYet
  /\ ParserInit

NextTexts == transform_returns

SpecTexts == InitTexts /\ [][NextTexts]_vars

\* assess on every answer of RawOutputs
InitAssess ==
  /\ FeedInit
  /\ PoolInit
  /\ OrchInit
  /\ llm_output = NotYet
  /\ threshold = 0
  /\ transformed = NotYet
  /\ validated = NotYet
  /\ raw_output \in RawOutputs
  /\ materiality = NotYet
  /\ transform_args = NotYet
  /\ transform_return = NotYet
  /\ ParserInit

NextAssess == assess

SpecAssess == InitAssess /\ [][NextAssess]_vars

\* _extract_tickers on every text of Texts
InitTickers ==
  /\ FeedInit
  /\ PoolInit
  /\ OrchInit
  /\ AnswerInit
  /\ article_text \in Texts
  /\ tickers = NotYet
  /\ variant = ""
  /\ html_content = <<>>
  /\ feed_item = NotYet
  /\ parse_result = NotYet

NextTickers == extract_tickers

SpecTickers == InitTickers /\ [][NextTickers]_vars

\* parse_article of every provider class on every page of HtmlContents
InitParse ==
  /\ FeedInit
  /\ PoolInit
  /\ OrchInit
  /\ AnswerInit
  /\ article_text = <<>>
  /\ tickers = NotYet
  /\ variant \in Variants
  /\ html_content \in HtmlContents
  /\ feed_item \in FeedItems
  /\ parse_result = NotYet

NextParse == parse_article

SpecParse == InitParse /\ [][NextParse]_vars

(***************************************************************************)
(* C1: over any sequence of fetch_new_items calls on one FeedReader and    *)
(* any feed contents, every guid is returned at most once in total (so in  *)
(* at most one call and at most once within it).                           *)
(***************************************************************************)
C1_GuidReturnedAtMostOnce ==
  \A n \in DOMAIN returned : \A g \in Guids : returned[n][g] <= 1

\* a guid that was returned once and that a feed listed again afterwards (in a
\* later poll or further down the same feed), after two polls of the reader
C1_Witness ==
  \E n \in DOMAIN returned : \E g \in Guids :
    g \in relisted[n] /\ returned[n][g] = 1 /\ polls = MaxPolls

(***************************************************************************)
(* C3: a call that makes NumModels attempts, the first NumModels-1 of them *)
(* rate limited, returns the stripped text and the identifier of the last  *)
(* attempted model if that attempt succeeds, and raises the error of the   *)
(* last attempt if that attempt is rate limited too.                       *)
(***************************************************************************)
RateLimited(a) == a.outcome = "raised" /\ is_rate_limit_error(a.payload.msg)

C3_LastAttemptDecides ==
  \A t \in Threads :
    ( /\ cpc[t] = "idle"
      /\ Len(attempts[t]) = NumModels
      /\ \A i \in 1 .. NumModels - 1 : RateLimited(attempts[t][i]) )
    => LET a == Last(attempts[t])
       IN /\ a.outcome = "ok" =>
               result[t] = [kind |-> "return", text |-> Strip(a.payload), model |-> a.model]
          /\ RateLimited(a) => result[t] = [kind |-> "raise", error |-> a.payload]

\* a call that started on a cursor other than 0, rotated through the whole
\* catalog and was served by the last model it tried
C3_Witness ==
  \E t \in Threads :
    /\ cpc[t] = "idle"
    /\ Len(attempts[t]) = NumModels
    /\ attempts[t][1].model # config_models(0)
    /\ \A i \in 1 .. NumModels - 1 : RateLimited(attempts[t][i])
    /\ Last(attempts[t]).outcome = "ok"
    /\ result[t].kind = "return"

(***************************************************************************)
(* C4: when an attempt fails with an error that is not a rate limit, the   *)
(* thread's next step ends the call raising that very error; the thread    *)
(* makes no further attempt and neither the failing attempt nor that step  *)
(* writes the rotation cursor.                                             *)
(***************************************************************************)
C4_NonRateLimitPropagates ==
  [][ \A t \in Threads :
        /\ ( /\ cpc[t] = "request"
             /\ cpc'[t] = "w_failure"
             /\ ~is_rate_limit_error(last_error'[t].msg) )
           => current_model_index' = current_model_index
        /\ ( /\ cpc[t] = "w_failure"
             /\ cpc'[t] # cpc[t]
             /\ ~is_rate_limit_error(last_error[t].msg) )
           => /\ cpc'[t] = "idle"
              /\ result'[t] = [kind |-> "raise", error |-> Last(attempts[t]).payload]
              /\ attempts'[t] = attempts[t]
              /\ current_model_index' = current_model_index ]_vars

\* a call ended by a non-rate-limit error with models left untried, the cursor
\* standing where an earlier rotation left it
C4_Witness ==
  \E t \in Threads :
    /\ cpc[t] = "idle"
    /\ result[t].kind = "raise"
    /\ ~is_rate_limit_error(result[t].error.msg)
    /\ Len(attempts[t]) < NumModels
    /\ current_model_index[site[t]] # 0

(***************************************************************************)
(* C5: a call raises a rate-limit error only if it attempted every model   *)
(* of the catalog, under any interleaving of concurrent calls.             *)
(***************************************************************************)
C5_RateLimitOnlyWhenExhausted ==
  \A t \in Threads :
    ( /\ cpc[t] = "idle"
      /\ result[t].kind = "raise"
      /\ is_rate_limit_error(result[t].error.msg) )
    => {attempts[t][i].model : i \in DOMAIN attempts[t]} = ModelSet

(***************************************************************************)
(* C6: cursor and counters are updated atomically: when no call is running *)
(* the cursor has advanced by exactly one position per rotation and every  *)
(* per-model counter equals the number of attempts it counts.              *)
(***************************************************************************)
C6_NoLostUpdate ==
  (\A t \in Threads : cpc[t] = "idle")
  => \A s \in Sites :
       /\ current_model_index[s] = rotations[s] % NumModels
       /\ \A m \in ModelSet :
            /\ successful_calls_by_model[s][m] = made_ok[s][m]
            /\ model_failures[s][m] = made_failed[s][m]

(***************************************************************************)
(* C7: MaterialityFilter and ArticleTransformer call through one rotation  *)
(* state: the cursor and the counters the materiality call site uses are   *)
(* the ones the transformer call site uses.                                *)
(***************************************************************************)
C7_OneRotationState ==
  /\ current_model_index["pool"] = current_model_index["transformer"]
  /\ model_failures["pool"] = model_failures["transformer"]
  /\ successful_calls_by_model["pool"] = successful_calls_by_model["transformer"]
  /\ total_api_calls["pool"] = total_api_calls["transformer"]

(***************************************************************************)
(* C2: no thread fetches the page of a URL, calls the transformer for it   *)
(* or POSTs it to the store while the URL is in processed_urls.            *)
(***************************************************************************)
C2_ProcessedNeverReprocessed ==
  [][ \A i \in DOMAIN wpc :
        (wpc[i] \in {"fetch", "transform", "store"} /\ wpc'[i] # wpc[i])
        => CurrentUrl(i) \notin processed_urls ]_vars

(***************************************************************************)
(* C8: under fair scheduling every started provider thread comes back to   *)
(* the start of a poll cycle again and again, whatever its own and the     *)
(* other threads' cycles run into.                                         *)
(***************************************************************************)
Started(i) == i \in DOMAIN wpc

C8_EveryWorkerKeepsPolling ==
  \A i \in WorkerIds :
    /\ []<>(Started(i) => wpc[i] = "poll")
    /\ []<>(Started(i) => wpc[i] # "poll")

\* a thread back at the start of a cycle after a cycle that raised, while the
\* other thread is in the middle of an item
C8_Witness ==
  \E i \in DOMAIN wpc : \E j \in DOMAIN wpc :
    /\ i # j
    /\ wpc[i] = "poll"
    /\ "raised" \in last[i].events
    /\ wpc[j] = "store"

(***************************************************************************)
(* C9: once run() has started with k >= 1 registered providers there are   *)
(* exactly k provider loops, the i-th bound to the i-th registered         *)
(* provider, and no provider has two loops.                                *)
(***************************************************************************)
C9_OneWorkerPerProvider ==
  main_pc = "running" =>
    /\ Len(providers) >= 1
    /\ Len(loop_provider) = Len(providers)
    /\ DOMAIN wpc = DOMAIN loop_provider
    /\ \A i \in DOMAIN loop_provider : loop_provider[i] = providers[i]
    /\ \A i \in DOMAIN loop_provider : \A j \in DOMAIN loop_provider :
         loop_provider[i] = loop_provider[j] => i = j

\* two providers registered, both loops inside a poll cycle
C9_Witness ==
  /\ main_pc = "running"
  /\ Len(providers) = 2
  /\ \A i \in DOMAIN wpc : wpc[i] = "fetch"

(***************************************************************************)
(* C10: an item whose parsed draft has no ticker gets no transformer call  *)
(* and no store POST, and its URL is in processed_urls.                    *)
(***************************************************************************)
C10_NoTickersDiscarded ==
  \A i \in DOMAIN last :
    "no_tickers" \in last[i].events
    => /\ "transform" \notin last[i].events
       /\ "post" \notin last[i].events
       /\ last[i].url \in processed_urls
       /\ wpc[i] \notin {"transform", "store", "delay"}

\* a thread that dropped a ticker-less item and went on to the next item
C10_Witness ==
  \E i \in DOMAIN last :
    /\ "no_tickers" \in last[i].events
    /\ wpc[i] = "items"
    /\ items[i] # <<>>

(***************************************************************************)
(* C11: when the provider's parser yields nothing for a fetched page, the  *)
(* URL of the item is in processed_urls once the item is dropped.          *)
(***************************************************************************)
C11_ParseNoneMarksProcessed ==
  \A i \in DOMAIN last :
    "parse_none" \in last[i].events => last[i].url \in processed_urls

(***************************************************************************)
(* C12: an item with tickers whose LLM call failed is not dropped: it goes *)
(* to the store, and the article that is POSTed carries the raw article    *)
(* text cut to SummaryCap as summary, no bullets and the topics            *)
(* ["General"].                                                            *)
(***************************************************************************)
C12_TransformerFailureFallsBack ==
  \A i \in DOMAIN journal : \A l \in Links :
    journal[i].cycle[l].llm = "failed"
    => /\ (wpc[i] = "store" /\ CurrentUrl(i) = l) \/ journal[i].cycle[l].post >= 1
       /\ (wpc[i] = "store" /\ CurrentUrl(i) = l)
          => /\ article_data[i].summary = RawSummary(article_data[i].article_text)
             /\ article_data[i].bullets = <<>>
             /\ article_data[i].topics = <<"General">>

(***************************************************************************)
(* C13: when the LLM call made by transform raises, transform raises to    *)
(* its caller instead of returning a result tuple.                         *)
(***************************************************************************)
C13_TransportFailurePropagates ==
  \A i \in DOMAIN journal : \A l \in Links :
    journal[i].cycle[l].llm = "failed" => journal[i].cycle[l].raised

(***************************************************************************)
(* C14: a store POST that is not answered Created leaves processed_urls as *)
(* it was, and a scrape-mode thread never skips a listed URL that is not   *)
(* in processed_urls: it fetches its page (and goes on to classify and     *)
(* POST it when the page parses with tickers).                             *)
(***************************************************************************)
C14_RejectedStaysUnmarked ==
  [][ \A i \in DOMAIN wpc :
        /\ ( /\ wpc[i] = "store"
             /\ wpc'[i] = "delay"
             /\ "saved" \notin last'[i].events )
           => processed_urls' = processed_urls
        /\ ( /\ FEED_MODE[Provider(i)] = "scrape"
             /\ wpc[i] = "items"
             /\ items[i] # <<>>
             /\ CurrentUrl(i) \notin processed_urls
             /\ <<wpc[i], items[i]>> # <<wpc'[i], items'[i]>> )
           => /\ wpc'[i] = "fetch"
              /\ items'[i] = items[i] ]_vars

\* a scrape-mode thread about to POST, in a later cycle, a URL whose POST was
\* rejected before
C14_Witness ==
  \E i \in DOMAIN journal :
    /\ FEED_MODE[Provider(i)] = "scrape"
    /\ wpc[i] = "store"
    /\ journal[i].outcome[CurrentUrl(i)] = "rejected"
    /\ journal[i].cycle[CurrentUrl(i)].classify = 1
    /\ CurrentUrl(i) \notin processed_urls

(***************************************************************************)
(* C15: in RSS mode a thread never starts processing an item whose         *)
(* processing by it has failed before (page fetch failed, parse yielded    *)
(* nothing, store rejected it), however often the feed lists it again.     *)
(***************************************************************************)
C15_FailedRssItemNotRetried ==
  [][ \A i \in DOMAIN journal :
        ( /\ FEED_MODE[Provider(i)] = "rss"
          /\ wpc[i] = "items"
          /\ wpc'[i] = "fetch" )
        => journal[i].outcome[CurrentGuid(i)] \notin Failures ]_vars

\* an RSS cycle that ended without touching an item (its guid is its link) that
\* the feed listed again after the store had rejected it, its URL still unmarked
C15_Witness ==
  \E i \in DOMAIN journal : \E g \in Links \ Ids :
    /\ FEED_MODE[Provider(i)] = "rss"
    /\ wpc[i] = "sleep"
    /\ g \in journal[i].relisted
    /\ journal[i].outcome[g] = "rejected"
    /\ g \notin processed_urls
    /\ journal[i].cycle[g].tested = "no"

(***************************************************************************)
(* C16: in one scrape-mode poll cycle a listed link found in processed_urls *)
(* gets no page fetch, no classification and no POST; no link gets more    *)
(* than one of each; and once the cycle is over every listed link that was *)
(* not in the set and whose page parsed with tickers got exactly one page  *)
(* fetch, one classification call and one store POST.                      *)
(***************************************************************************)
C16_OneFetchPerNewLink ==
  \A i \in DOMAIN journal :
    FEED_MODE[Provider(i)] = "scrape"
    => \A l \in Links :
         LET v == journal[i].cycle[l]
         IN /\ v.tested = "skipped" => v.fetch = 0 /\ v.classify = 0 /\ v.post = 0
            /\ v.fetch <= 1 /\ v.classify <= 1 /\ v.post <= 1
            /\ (wpc[i] = "sleep" /\ v.tested = "new" /\ v.tickers)
               => v.fetch = 1 /\ v.classify = 1 /\ v.post = 1

\* the end of a scrape cycle that listed MaxItems links: one was already
\* processed and skipped, another was new and went through fetch,
\* classification and POST
C16_Witness ==
  \E i \in DOMAIN journal : \E k \in Links : \E l \in Links :
    /\ FEED_MODE[Provider(i)] = "scrape"
    /\ wpc[i] = "sleep"
    /\ journal[i].cycle[k].tested = "skipped"
    /\ journal[i].cycle[l].tested = "new"
    /\ journal[i].cycle[l].tickers
    /\ journal[i].cycle[l].post = 1

(***************************************************************************)
(* C17: whenever the answer states a confidence below the threshold and    *)
(* transform takes its category from the answer (strict JSON parse or      *)
(* regex fallback), transform returns the category "General".              *)
(***************************************************************************)
C17_LowConfidenceIsGeneral ==
  ( /\ transformed # NotYet
    /\ transformed.path \in {"json", "regex"}
    /\ Less(llm_output.confidence, Num(threshold)) )
  => transformed.category = General

(***************************************************************************)
(* C18: _validate_category maps "Spin offs", in any letter case, to the    *)
(* canonical category "Spin-offs".                                         *)
(***************************************************************************)
C18_SpinOffsAlias ==
  ( /\ validated # NotYet
    /\ Lower(llm_output.category) = <<"s","p","i","n"," ","o","f","f","s">> )
  => validated.category = <<"S","p","i","n","-","o","f","f","s">>

(***************************************************************************)
(* C19: for every answer from which no numeric score can be parsed (not    *)
(* JSON, JSON that is not an object, a score that is null or not a number) *)
(* assess returns is_material = True, score 0.5, is_borderline = False,    *)
(* and does not raise.                                                     *)
(***************************************************************************)
Unparsable(output) ==
  \/ Loads(BraceSpan(Unfence(output))) # "dict"
  \/ output.score.kind \in {"null", "text"}

C19_FailOpenOnParseFailure ==
  (materiality # NotYet /\ Unparsable(raw_output))
  => /\ materiality.kind = "result"
     /\ materiality.is_material
     /\ materiality.score = Num(50)
     /\ ~materiality.is_borderline

(***************************************************************************)
(* C20: every result assess derives from a parsed score has is_material =  *)
(* (score >= material_threshold) and is_borderline = (not is_material and  *)
(* score >= borderline_threshold); no result of assess is both material    *)
(* and borderline, and every returned score lies in [0, 1].                *)
(***************************************************************************)
C20_ThresholdsAndRange ==
  (materiality # NotYet /\ materiality.kind = "result")
  => /\ ~(materiality.is_material /\ materiality.is_borderline)
     /\ materiality.score.kind = "num"
     /\ materiality.score.val >= 0
     /\ materiality.score.val <= 100
     /\ ~Unparsable(raw_output)
        => /\ materiality.is_material = (materiality.score.val >= material_threshold)
           /\ materiality.is_borderline =
                (~materiality.is_material /\ materiality.score.val >= borderline_threshold)

\* a score above 1 that was clamped to 1 and found material, the answer being
\* wrapped in commentary and a fence
C20_Witness ==
  /\ materiality # NotYet
  /\ materiality.kind = "result"
  /\ raw_output.score = Num(150)
  /\ raw_output.commentary
  /\ raw_output.fenced
  /\ materiality.score = Num(100)
  /\ materiality.is_material

(***************************************************************************)
(* C21: the list _extract_tickers returns holds no symbol twice, and its   *)
(* elements are exactly the symbols (one to five capitals) that stand in   *)
(* the text inside "(NYSE:" ... ")" or "(NASDAQ:" ... ")", however often   *)
(* each of them stands there.                                              *)
(***************************************************************************)
Symbols == { <<"A","A","P","L">>, <<"T","S","L","A">>, <<"F">>, <<"V","O","D">> }
Paddings == { <<>>, <<" ">>, <<"\n"," ">> }
AllowListed == { <<"N","Y","S","E">>, <<"N","A","S","D","A","Q">> }
Qualified(s) ==
  {symbol \in Symbols :
     \E exchange \in AllowListed : \E pad \in Paddings :
       Contains(s, <<"(">> \o exchange \o <<":">> \o pad \o symbol \o <<")">>)}

C21_TickersAreTheQualifiedSet ==
  tickers # NotYet
  => /\ Cardinality(Range(tickers.symbols)) = Len(tickers.symbols)
     /\ Range(tickers.symbols) = Qualified(article_text)

\* a text that names AAPL twice, once per exchange or twice the same way, and
\* yields the one-element list
C21_Witness ==
  /\ tickers # NotYet
  /\ Len(FindAll(article_text, 1, <<>>)) = 2
  /\ tickers.symbols = << <<"A","A","P","L">> >>

(***************************************************************************)
(* C22: parse_article of every provider class returns None, and does not   *)
(* raise, when the page is empty or holds none of the body containers the  *)
(* class looks for, whatever the feed item is.                             *)
(***************************************************************************)
NoBodyContainer(v, html) ==
  \A k \in DOMAIN html.elements : \A h \in DOMAIN Locators(v) :
    html.elements[k].locator # Locators(v)[h]

C22_NoBodyGivesNone ==
  ( /\ parse_result # NotYet
    /\ html_content.empty \/ NoBodyContainer(variant, html_content) )
  => parse_result = ReturnsNone

\* a page that holds text in a container another provider class looks for and
\* in a plain paragraph, parsed to None
C22_Witness ==
  /\ parse_result = ReturnsNone
  /\ ~html_content.empty
  /\ NoBodyContainer(variant, html_content)
  /\ \E w \in Variants \ {variant} : ~NoBodyContainer(w, html_content)
  /\ \E k \in DOMAIN html_content.elements :
       html_content.elements[k] = [locator |-> "p", text |-> "body"]

(***************************************************************************)
(* C23: a provider thread starts a poll cycle only out of the sleep of     *)
(* _provider_loop, the step after that sleep is the start of the next poll *)
(* cycle, also when the cycle before ended with an exception, and in every *)
(* state the thread has a next step: it is never in a terminal position.   *)
(***************************************************************************)
C23_OneSleepBetweenCycles ==
  /\ [](\A i \in DOMAIN wpc : ENABLED WorkerNext(i))
  /\ [][ \A i \in DOMAIN wpc :
           /\ (wpc[i] # "poll" /\ wpc'[i] = "poll") => wpc[i] = "sleep"
           /\ (wpc[i] = "sleep" /\ wpc'[i] # "sleep") => wpc'[i] = "poll" ]_vars

\* a thread asleep after a cycle that raised, the other thread in the middle
\* of an item of its own cycle
C23_Witness ==
  \E i \in DOMAIN wpc : \E j \in DOMAIN wpc :
    /\ i # j
    /\ wpc[i] = "sleep"
    /\ "raised" \in last[i].events
    /\ wpc[j] = "transform"

(***************************************************************************)
(* C24: a call made while no other call runs ends (returns or raises); it  *)
(* makes at most NumModels attempts, no two of them on the same model;     *)
(* each attempt that follows a rate-limited one is on the model that comes *)
(* next in the catalog, the first model coming after the last; and a call  *)
(* that ends on a rate limit has gone through the whole catalog.           *)
(***************************************************************************)
IndexOf(m) == CHOOSE i \in ModelIndexes : config_models(i) = m

SinglePass(t) ==
  /\ Len(attempts[t]) <= NumModels
  /\ \A i \in DOMAIN attempts[t] : \A j \in DOMAIN attempts[t] :
       attempts[t][i].model = attempts[t][j].model => i = j
  /\ \A i \in 1 .. Len(attempts[t]) - 1 :
       /\ RateLimited(attempts[t][i])
       /\ IndexOf(attempts[t][i + 1].model) =
            (IndexOf(attempts[t][i].model) + 1) % NumModels
  /\ ( /\ cpc[t] = "idle"
       /\ result[t].kind = "raise"
       /\ is_rate_limit_error(result[t].error.msg) )
     => Len(attempts[t]) = NumModels

InPipeline(i) == wpc[i] \in {"fetch", "transform", "store"}

C25_OneWorkerPerUrl ==
  \A i \in DOMAIN wpc : \A j \in DOMAIN wpc :
    i # j
    => /\ ~(InPipeline(i) /\ InPipeline(j) /\ CurrentUrl(i) = CurrentUrl(j))
       /\ ~( /\ last[i].url # Absent
             /\ last[i].url = last[j].url
             /\ {"fetch", "transform", "post", "saved"} \subseteq last[i].events
             /\ {"fetch", "transform", "post"} \subseteq last[j].events )

(***************************************************************************)
(* C26: a URL enters processed_urls only in the step in which a thread's   *)
(* POST of that URL is answered Created or in which the draft parsed for   *)
(* that URL has no ticker; a failed page fetch leaves processed_urls as it *)
(* was and ends the item: no parser, transformer or store call follows.    *)
(***************************************************************************)
FetchFailed(i) == last[i].url # Absent /\ last[i].events = {"fetch"}

C26_OnlySavedOrTickerlessMarked ==
  /\ [](\A i \in DOMAIN wpc :
          FetchFailed(i) => wpc[i] \notin {"fetch", "transform", "store", "delay"})
  /\ [][ /\ \A u \in Links :
              (u \notin processed_urls /\ u \in processed_urls')
              => \E i \in DOMAIN wpc :
                   /\ items[i] # <<>>
                   /\ CurrentUrl(i) = u
                   /\ \/ wpc[i] = "store" /\ wpc'[i] = "delay" /\ "saved" \in last'[i].events
                      \/ wpc[i] = "fetch" /\ "no_tickers" \in last'[i].events
         /\ \A i \in DOMAIN wpc :
              (wpc[i] = "fetch" /\ FetchFailed(i)')
              => /\ processed_urls' = processed_urls
                 /\ wpc'[i] = "items"
                 /\ article_data' = article_data ]_vars

\* a thread that went on to its next item after a failed page fetch, the URL
\* of the failed item unmarked while another URL is in the set
C26_Witness ==
  \E i \in DOMAIN wpc :
    /\ FetchFailed(i)
    /\ wpc[i] = "items"
    /\ items[i] # <<>>
    /\ last[i].url \notin processed_urls
    /\ processed_urls # {}

(***************************************************************************)
(* C27: every article that is POSTed to the store had a materiality        *)
(* assessment made before its classification call, and the article_data    *)
(* that is POSTed carries the keys is_material and materiality_score.      *)
(***************************************************************************)
C27_AssessedBeforeClassified ==
  \A i \in DOMAIN journal :
    /\ \A l \in Links :
         journal[i].cycle[l].classify >= 1 => journal[i].cycle[l].assess >= 1
    /\ wpc[i] = "store"
       => {"is_material", "materiality_score"} \subseteq DOMAIN article_data[i]

(***************************************************************************)
(* C28: within one poll cycle a thread does not fetch an article page      *)
(* until the inter-item delay has passed since its previous page fetch of  *)
(* the cycle, however the item of that fetch ended.                        *)
(***************************************************************************)
C28_DelayBetweenFetches ==
  \A i \in DOMAIN journal :
    wpc[i] = "fetch" => journal[i].since_fetch # "fetched"

(***************************************************************************)
(* C29: with calls made one after another, a call that returns (text, m)   *)
(* leaves the cursor of its object on m; the first attempt of a call is on *)
(* the model at the cursor, so on the model that served the call before;   *)
(* and the only step that changes a cursor is the rotation that follows a  *)
(* rate-limited attempt, which moves the cursor of that object by one.     *)
(***************************************************************************)
C29_CursorStaysOnServingModel ==
  /\ [](\A t \in Threads :
          (cpc[t] = "idle" /\ result[t].kind = "return")
          => config_models(current_model_index[site[t]]) = result[t].model)
  /\ [][ /\ \A t \in Threads :
              (cpc[t] = "loop" /\ cpc'[t] = "request" /\ attempts[t] = <<>>)
              => current_model'[t] = config_models(current_model_index[site[t]])
         /\ current_model_index' # current_model_index
            => \E t \in Threads :
                 /\ cpc[t] = "w_index"
                 /\ RateLimited(Last(attempts[t]))
                 /\ current_model_index' =
                      [current_model_index EXCEPT ![site[t]] = (@ + 1) % NumModels] ]_vars

\* the last call of a run, served at its first attempt by a model other than
\* the first of the catalog: the model an earlier call had rotated to
C29_Witness ==
  \E t \in Threads :
    /\ calls = MaxCalls
    /\ cpc[t] = "idle"
    /\ result[t].kind = "return"
    /\ Len(attempts[t]) = 1
    /\ result[t].model # config_models(0)

(***************************************************************************)
(* C30: whatever calls and reset_stats calls the threads have made, and    *)
(* however their steps interleave, the rotation cursor of every object is  *)
(* an index of the catalog, 0 .. NumModels - 1.                            *)
(***************************************************************************)
C30_CursorInCatalog ==
  \A s \in Sites : current_model_index[s] \in 0 .. NumModels - 1

\* a cursor that went round the catalog back to 0 while a thread is in the
\* middle of reset_stats
C30_Witness ==
  \E t \in Threads :
    /\ cpc[t] = "rs_failures"
    /\ rotations[site[t]] = NumModels
    /\ current_model_index[site[t]] = 0

(***************************************************************************)
(* C31: with calls and reset_stats calls made one after the other, between *)
(* two operations total_api_calls is the sum of the per-model success      *)
(* counters; a failed attempt adds one to the failure counter of the model *)
(* it was made on and changes no other counter and not total_api_calls.    *)
(***************************************************************************)
RECURSIVE SumOver(_, _)
SumOver(counters, models) ==
  IF models = {} THEN 0
  ELSE LET m == CHOOSE x \in models : TRUE
       IN counters[m] + SumOver(counters, models \ {m})

InReset(t) == cpc[t] \in {"rs_success", "rs_failures"}

C32_ResetZeroesCountersOnly ==
  [][ \A t \in Threads :
        /\ (cpc'[t] # cpc[t] /\ (InReset(t) \/ InReset(t)'))
           => current_model_index' = current_model_index
        /\ (cpc[t] = "rs_failures" /\ cpc'[t] = "idle")
           => /\ total_api_calls'[site[t]] = 0
              /\ DOMAIN successful_calls_by_model'[site[t]] = ModelSet
              /\ DOMAIN model_failures'[site[t]] = ModelSet
              /\ \A m \in ModelSet :
                   /\ successful_calls_by_model'[site[t]][m] = 0
                   /\ model_failures'[site[t]][m] = 0 ]_vars

\* a reset has returned after a call that rotated: every counter is zero and
\* the cursor stands on the model the call rotated to
C32_Witness ==
  /\ cpc["T1"] = "idle"
  /\ rotations["pool"] = 1
  /\ current_model_index["pool"] = 1
  /\ total_api_calls["pool"] = 0
  /\ \A m \in ModelSet :
       successful_calls_by_model["pool"][m] = 0 /\ model_failures["pool"][m] = 0

(***************************************************************************)
(* C33: every registered provider in rss mode has a FeedReader of its own: *)
(* a poll of the provider changes that reader only, and whatever feed the  *)
(* poll reads, the items it returns are the entries whose guid that reader *)
(* has not seen, whichever guids the readers of other providers have seen. *)
(***************************************************************************)
Listed(entries) == Range(EntryGuids(entries))

\* a poll of worker i that read the feed `entries` and answered by the
\* provider's own reader alone
PollsOwnReader(i, entries) ==
  /\ Range(ItemGuids(items'[i])) = Listed(entries) \ feed_readers[Provider(i)]
  /\ feed_readers' =
       [feed_readers EXCEPT ![Provider(i)] = @ \cup Listed(entries)]

AtRssPoll(i) ==
  /\ wpc[i] = "poll"
  /\ FEED_MODE[Provider(i)] = "rss"

C34_SetsOnlyGrow ==
  [][ /\ processed_urls \subseteq processed_urls'
      /\ \A n \in DOMAIN feed_readers :
           /\ n \in DOMAIN feed_readers'
           /\ feed_readers[n] \subseteq feed_readers'[n] ]_vars

\* a reader that has seen two guids, over two polls, and two processed URLs
C34_Witness ==
  /\ Cardinality(processed_urls) = 2
  /\ \E n \in DOMAIN feed_readers : Cardinality(feed_readers[n]) = 2

(***************************************************************************)
(* C35: for an answer that is not JSON once its fences are removed,        *)
(* transform returns the fields the regular expressions find when they     *)
(* find a title, a summary and a category; when they do not find all       *)
(* three it returns the title it was called with (as _preprocess_text      *)
(* leaves it), no bullets, the summary "Unable to generate summary" and    *)
(* the category General.  It returns in both cases.                        *)
(***************************************************************************)
NotJson(output) == output.commentary \/ output.payload = "broken"

RegexFinds(output) ==
  /\ output.payload # "array"
  /\ output.title
  /\ output.summary
  /\ output.category # NoField

C36_CommentaryTolerated ==
  ( /\ transform_return # NotYet
    /\ transform_args.error = NoError
    /\ llm_output.commentary
    /\ llm_output.payload = "object" )
  => LET bare == TransformReturn(transform_args.title,
                                 [llm_output EXCEPT !.commentary = FALSE],
                                 transform_args.texts, NoError, threshold)
     IN /\ transform_return.title = bare.title
        /\ transform_return.bullets = bare.bullets
        /\ transform_return.summary = bare.summary
        /\ transform_return.category = bare.category

(***************************************************************************)
(* C37: the category transform returns is a name of the taxonomy the store *)
(* is seeded with, and _validate_category returns, for a label that equals *)
(* a name of that taxonomy up to letter case, that name, and General for   *)
(* every other label.                                                      *)
(***************************************************************************)
Canonical(label) ==
  IF \E k \in DOMAIN new_topics : Lower(new_topics[k]) = Lower(label)
  THEN new_topics[CHOOSE k \in DOMAIN new_topics : Lower(new_topics[k]) = Lower(label)]
  ELSE General

C37_CategoryInTaxonomy ==
  /\ transformed # NotYet => transformed.category \in Range(new_topics)
  /\ validated # NotYet => validated.category = Canonical(llm_output.category)

(***************************************************************************)
(* C38: whichever way transform returns (strict JSON, regex fallback,      *)
(* parse-failure defaults, its except block), the title it returns has at  *)
(* most 100 characters and the summary at most 1000.                       *)
(***************************************************************************)
C38_TitleAndSummaryCapped ==
  transform_return # NotYet
  => /\ transform_return.title.len <= TitleLimit
     /\ transform_return.summary.len <= SummaryLimit

(***************************************************************************)
(* C39: run() called with no provider registered returns: it submits no    *)
(* _provider_loop and blocks on none, and neither it nor anything after it *)
(* polls a feed, fetches a page, calls the LLM or POSTs to the store.      *)
(***************************************************************************)
C39_RunWithoutProvidersReturns ==
  /\ [](main_pc = "returned"
        => /\ providers = <<>>
           /\ wpc = <<>> /\ loop_provider = <<>>
           /\ feed_readers = <<>> /\ processed_urls = {}
           /\ calls = 0
           /\ \A i \in WorkerIds : ~ENABLED WorkerNext(i))
  /\ [][ (main_pc = "register" /\ providers = <<>> /\ main_pc' # "register")
         => /\ main_pc' = "returned"
            /\ UNCHANGED <<wpc, loop_provider, items, article_data, feed_readers,
                           processed_urls, poolVars>> ]_vars

\* run() has returned
C39_Witness ==
  /\ main_pc = "returned"
  /\ providers = <<>>

====
